---- MODULE Spec2Model ----
(***************************************************************************)
(* A model of the FastAPI backend template: the OIDC login / callback      *)
(* flow with its two tables (users, oidc_states), the application JWT      *)
(* (create_access_token / decode_access_token over python-jose), the       *)
(* bearer-token dependencies guarding the admin endpoints, and the lazy    *)
(* initialisation of the shared DatabaseManager.                           *)
(*                                                                         *)
(* Four specifications share the module:                                   *)
(*   Spec      login and callback requests handled one at a time           *)
(*   SpecJwt   create_access_token / decode_access_token on bounded inputs *)
(*   SpecAdmin requests to the endpoints guarded by get_admin_user         *)
(*   SpecDb    coroutines of one event loop on the shared DatabaseManager  *)
(***************************************************************************)
EXTENDS Integers, Sequences, FiniteSets, TLC

VARIABLES
    \* ---- Spec: the OIDC flow ----
    now,            \* wall clock, in minutes
    env,            \* os.environ, read through Settings.__getattr__
    oidc_states,    \* committed rows of table oidc_states
    users,          \* committed rows of table users
    gen,            \* how many state/nonce/verifier triples secrets has produced
    nreq,           \* requests handled so far
    req,            \* the request handled last
    resp,           \* the response to it
    consumed,       \* states for which get_and_delete_oidc_state returned data, with the count
    token_posts,    \* the POSTs made to the provider's token endpoint
    \* ---- SpecJwt ----
    j_claims,       \* the claims map handed to create_access_token
    j_minutes,      \* its expires_minutes argument
    j_created,      \* what create_access_token returned or raised
    j_issued_at,    \* the clock when it ran
    j_decoded,      \* what decode_access_token returned or raised
    j_user,         \* what get_current_user answered for the token
    \* ---- SpecAdmin ----
    a_token,        \* the credentials of the request handled last
    a_endpoint,     \* the endpoint it addressed
    a_status,       \* the HTTP status answered
    a_reads,        \* reads of env files done by handlers
    a_writes,       \* writes of env files / bucket creations done by handlers
    backend_env,    \* backend .env file: does it exist, has it comment lines, its variables
    frontend_env,   \* frontend .env file, likewise
    buckets,        \* buckets of the object-storage service
    \* ---- SpecDb ----
    engine,             \* DatabaseManager.engine (0 is None)
    async_session_maker,\* DatabaseManager.async_session_maker (0 is None)
    initialized,        \* DatabaseManager._initialized
    init_lock,          \* holder of _init_lock (0: free)
    table_lock,         \* holder of _table_creation_lock (0: free)
    engines_created,    \* engines create_async_engine has returned so far
    makers_created,     \* session makers async_sessionmaker has returned so far
    engines_closed,     \* times close_db has reset the manager
    create_all_runs,    \* executions of Base.metadata.create_all so far
    calls,              \* calls started on the manager so far
    ct_epoch,           \* engines_closed when the create_tables call in progress took the lock
    tables_created,     \* a create_tables call has completed successfully since the last reset
    running,            \* the coroutine the event loop is running (0: none)
    pc,                 \* where each coroutine stands
    op,                 \* the outermost call each coroutine makes
    outcome,            \* how each coroutine's call ended
    \* ---- SpecFan ----
    f_kind,         \* the fan-out running: "load" (mock data) or "repair" (table structure)
    f_n,            \* the number of files / tables it found
    f_engine,       \* db_manager.engine is set
    f_state,        \* where the fanning coroutine stands
    f_pc,           \* where the task of each file / table stands
    sem_value,      \* Semaphore._value
    sem_waiters,    \* Semaphore._waiters: the tasks whose futures are queued
    \* ---- SpecExchange ----
    x_verify,       \* what the verification service did for the request handled last
    x_resp,         \* the outcome of exchange_platform_token for it
    x_n,            \* token-exchange requests handled so far
    \* ---- SpecPay ----
    stripe_api_key, \* stripe.api_key is set (truthy)
    p_op,           \* the PaymentService method called last
    p_result,       \* how it ended: a response, or the CheckoutError raised
    p_session_calls,\* Stripe checkout-session calls that call made
    p_n,            \* PaymentService calls so far
    \* ---- SpecLambda ----
    dynamic_routes_initialized, \* lambda_handler.dynamic_routes_initialized
    seo_paths,      \* lambda_handler.seo_paths
    l_event,        \* the event handled last
    l_result,       \* where lambda_handler routed it and the status it answered itself
    \* ---- SpecSessions ----
    db_backend,     \* the database behind DATABASE_URL: "postgresql" or "sqlite"
    s_pc,           \* where each concurrent callback stands in get_and_delete_oidc_state
    s_found,        \* the row its select returned (None: not selected, or nothing found)
    s_data,         \* the state data it obtained (None: none)
    s_locks,        \* what each open transaction has locked: ids of rows it deleted, 0 for the database
    \* ---- SpecDb, continued ----
    fresh_call,     \* the coroutine whose ensure_initialized call in progress started on a
                    \* manager reset by close_db with no other call in progress (0: none)
    \* ---- SpecBoot ----
    services_initialized,   \* lambda_handler.services_initialized
    ev_loop,        \* the current event loop of the container's thread: "none", "open", "closed"
    b_calls,        \* the initialisation functions the request handled last called, with outcomes
    b_result,       \* how that request ended: "mangum" (handed on) or the exception raised
    b_n,            \* /api/v1/ requests handled so far
    \* ---- SpecStream ----
    g_pc,           \* where event_generator stands: "try", "except", "finally", "closed"
    g_events,       \* the events it has yielded so far
    g_chunks,       \* chunks the upstream stream has delivered so far
    g_error,        \* the exception the upstream raised (None: none)
    \* ---- SpecMock ----
    m_exists,       \* the tables of the database
    m_rows,         \* committed row count of each table name
    m_kind,         \* what each mock data file holds
    m_start,        \* m_rows when the current initialize_mock_data began
    m_load,         \* each file's load_file task: position, uncommitted rows, failure seen
    m_runs,         \* initialize_mock_data calls begun so far
    m_raised        \* an exception left initialize_mock_data

authVars  == <<now, env, oidc_states, users, gen, nreq, req, resp, consumed, token_posts>>
jwtVars   == <<j_claims, j_minutes, j_created, j_issued_at, j_decoded, j_user>>
adminVars == <<a_token, a_endpoint, a_status, a_reads, a_writes, backend_env, frontend_env, buckets>>
dbVars    == <<engine, async_session_maker, initialized, init_lock, table_lock,
               engines_created, makers_created, engines_closed, create_all_runs,
               calls, ct_epoch, tables_created, running, pc, op, outcome>>
fanVars   == <<f_kind, f_n, f_engine, f_state, f_pc, sem_value, sem_waiters>>
oldVars   == <<authVars, jwtVars, adminVars, dbVars>>
exVars    == <<x_verify, x_resp, x_n>>
payVars   == <<stripe_api_key, p_op, p_result, p_session_calls, p_n>>
lamVars   == <<dynamic_routes_initialized, seo_paths, l_event, l_result>>
sesVars   == <<db_backend, s_pc, s_found, s_data, s_locks>>
bootVars  == <<services_initialized, ev_loop, b_calls, b_result, b_n>>
streamVars == <<g_pc, g_events, g_chunks, g_error>>
mockVars  == <<m_exists, m_rows, m_kind, m_start, m_load, m_runs, m_raised>>
laterVars == <<bootVars, streamVars, mockVars>>
streamFrame == <<oldVars, fanVars, exVars, payVars, lamVars, sesVars, fresh_call, bootVars, mockVars>>
mockFrame == <<oldVars, fanVars, exVars, payVars, lamVars, sesVars, fresh_call, bootVars, streamVars>>
lateVars  == <<fresh_call, laterVars>>
bootFrame == <<oldVars, fanVars, exVars, payVars, lamVars, sesVars, fresh_call, streamVars, mockVars>>
restVars  == <<fanVars, exVars, payVars, lamVars, sesVars, lateVars>>
vars      == <<oldVars, restVars>>
fanFrame  == <<oldVars, exVars, payVars, lamVars, sesVars, lateVars>>
exFrame   == <<jwtVars, adminVars, dbVars, fanVars, payVars, lamVars, sesVars, lateVars>>
payFrame  == <<oldVars, fanVars, exVars, lamVars, sesVars, lateVars>>
lamFrame  == <<oldVars, fanVars, exVars, payVars, sesVars, lateVars>>
sesFrame  == <<now, env, users, gen, nreq, req, resp, consumed, token_posts,
               jwtVars, adminVars, dbVars, fanVars, exVars, payVars, lamVars, lateVars>>

-----------------------------------------------------------------------------
(* Bounds of the model *)

MaxLogins == 2
MaxRequests == 4
MaxTime == 15
TickStep == 5
JwtMaxTime == 3
MaxAdminRequests == 3
NumCoroutines == 3
MaxCalls == 3
AdminMaxTime == 1

(* Program constants *)

StateTTL == 10
DefaultExpireMinutes == 60

-----------------------------------------------------------------------------
(* Python values.  None is the empty tuple; a str, an int and a datetime   *)
(* are tagged, so that a value keeps its type through a conversion.        *)

None == <<>>
PyStr(s) == <<"str", s>>
PyInt(n) == <<"int", n>>
PyDt(n) == <<"dt", n>>
IsStr(v) == v # None /\ v[1] = "str"
IsInt(v) == v # None /\ v[1] = "int"
IsDt(v) == v # None /\ v[1] = "dt"
PyBool(b) == <<"bool", b>>
Truthy(v) == v # None /\ v # PyStr("") /\ v # PyInt(0) /\ v # PyBool(FALSE)

(* The outcome of a call: a value, or the class (and text) of the exception. *)
Ok(v) == [exc |-> "", msg |-> "", val |-> v]
Raise(e, m) == [exc |-> e, msg |-> m, val |-> None]

(* dict.get(key, default) and dict.update({key: value}) *)
DictGet(d, k, default) == IF k \in DOMAIN d THEN d[k] ELSE default
DictSet(d, k, v) == [x \in (DOMAIN d) \cup {k} |-> IF x = k THEN v ELSE d[x]]
EmptyDict == [x \in {} |-> None]

-----------------------------------------------------------------------------
(* core/config.py *)

EnvVarName(name) ==
    CASE name = "jwt_secret_key" -> "JWT_SECRET_KEY"
      [] name = "jwt_algorithm" -> "JWT_ALGORITHM"
      [] name = "jwt_expire_minutes" -> "JWT_EXPIRE_MINUTES"
      [] name = "admin_user_id" -> "ADMIN_USER_ID"
      [] name = "admin_user_email" -> "ADMIN_USER_EMAIL"
      [] name = "database_url" -> "DATABASE_URL"
      [] name = "stripe_secret_key" -> "STRIPE_SECRET_KEY"
      [] OTHER -> name

(* Settings.__getattr__: the variable's value, or AttributeError when the  *)
(* environment does not hold it.  (The value is cached in __dict__; the     *)
(* environment never changes while the process runs, so the cache returns   *)
(* what this lookup returns.)                                               *)
SettingsGetattr(e, name) ==
    IF EnvVarName(name) \in DOMAIN e
    THEN Ok(PyStr(e[EnvVarName(name)]))
    ELSE Raise("AttributeError", "object has no attribute")

(* int(s) for the strings the model's environments hold *)
ParseInt(v) ==
    CASE v = PyStr("1") -> Ok(1)
      [] v = PyStr("2") -> Ok(2)
      [] v = PyStr("60") -> Ok(60)
      [] IsInt(v) -> Ok(v[2])
      [] OTHER -> Raise("ValueError", "invalid literal for int()")

-----------------------------------------------------------------------------
(* python-jose, as core/auth.py calls it.  A token is its header (alg,     *)
(* kid), its JSON payload and the key that signed it.                      *)

TimeClaims == {"exp", "iat", "nbf"}
HmacAlgorithms == {"HS256", "HS384", "HS512"}

(* jwt.encode: datetimes under exp/iat/nbf become integer timestamps, the  *)
(* claims are serialised as JSON (a datetime elsewhere is not              *)
(* serialisable), and the result is signed with key.                       *)
JwtEncode(claims, key, alg) ==
    LET conv == [k \in DOMAIN claims |->
                    IF k \in TimeClaims /\ IsDt(claims[k]) THEN PyInt(claims[k][2])
                    ELSE claims[k]]
    IN  IF alg \notin HmacAlgorithms
        THEN Raise("JWSError", "Algorithm not supported")
        ELSE IF \E k \in DOMAIN conv : IsDt(conv[k])
        THEN Raise("TypeError", "Object of type datetime is not JSON serializable")
        ELSE Ok([alg |-> alg, kid |-> "", payload |-> conv, key |-> key])

(* jwt.decode's registered-claim checks, in python-jose's order: iat, nbf,  *)
(* exp, aud, iss, sub, jti, at_hash.  audience / issuer are None when the   *)
(* caller passes none; no caller passes an access_token.                    *)
JwtValidateClaims(p, audience, issuer, t) ==
    IF "iat" \in DOMAIN p /\ ~IsInt(p["iat"])
    THEN Raise("JWTClaimsError", "Issued At claim (iat) must be an integer.")
    ELSE IF "nbf" \in DOMAIN p /\ ~IsInt(p["nbf"])
    THEN Raise("JWTClaimsError", "Not Before claim (nbf) must be an integer.")
    ELSE IF "nbf" \in DOMAIN p /\ p["nbf"][2] > t
    THEN Raise("JWTClaimsError", "The token is not yet valid (nbf)")
    ELSE IF "exp" \in DOMAIN p /\ ~IsInt(p["exp"])
    THEN Raise("JWTClaimsError", "Expiration Time claim (exp) must be an integer.")
    ELSE IF "exp" \in DOMAIN p /\ p["exp"][2] < t
    THEN Raise("ExpiredSignatureError", "Signature has expired.")
    ELSE IF "aud" \in DOMAIN p /\ ~IsStr(p["aud"])
    THEN Raise("JWTClaimsError", "Invalid claim format in token")
    ELSE IF "aud" \in DOMAIN p /\ p["aud"] # audience
    THEN Raise("JWTClaimsError", "Invalid audience")
    ELSE IF issuer # None /\ DictGet(p, "iss", None) # issuer
    THEN Raise("JWTClaimsError", "Invalid issuer")
    ELSE IF "sub" \in DOMAIN p /\ ~IsStr(p["sub"])
    THEN Raise("JWTClaimsError", "Subject must be a string.")
    ELSE IF "jti" \in DOMAIN p /\ ~IsStr(p["jti"])
    THEN Raise("JWTClaimsError", "JWT ID must be a string.")
    ELSE IF "at_hash" \in DOMAIN p
    THEN Raise("JWTClaimsError", "No access_token provided to compare against at_hash claim.")
    ELSE Ok(p)

(* jwt.decode: the header's algorithm must be allowed and the signature    *)
(* must verify under key (any failure of jws.verify is re-raised as the    *)
(* class sigexc names); then the claims are validated.                     *)
JwtDecode(token, key, algorithms, audience, issuer, t, sigexc) ==
    IF token.alg \notin algorithms
    THEN Raise("JWTError", "The specified alg value is not allowed")
    ELSE IF token.key # key
    THEN Raise(sigexc, "Signature verification failed.")
    ELSE JwtValidateClaims(token.payload, audience, issuer, t)

-----------------------------------------------------------------------------
(* core/auth.py *)

StateVal(k) == <<"state", k>>
NonceVal(k) == <<"nonce", k>>
VerifierVal(k) == <<"verifier", k>>

(* generate_state / generate_nonce / generate_code_verifier: the k-th draw  *)
(* of secrets.token_urlsafe, a value no earlier draw returned.              *)
generate_state(k) == StateVal(k)
generate_nonce(k) == NonceVal(k)
generate_code_verifier(k) == VerifierVal(k)

(* base64url(sha256(verifier)) without padding *)
generate_code_challenge(code_verifier) == <<"b64url-sha256", code_verifier>>

(* Mutant: the token claims start from an empty map, not from a copy of claims *)
create_access_token_nocopy(claims, expires_minutes, e, t) ==
    LET secret == SettingsGetattr(e, "jwt_secret_key")
        alg == SettingsGetattr(e, "jwt_algorithm")
    IN  IF secret.exc # "" \/ alg.exc # "" \/ ~Truthy(secret.val)
        THEN Raise("ValueError", "JWT secret key is not configured")
        ELSE JwtEncode([exp |-> PyDt(t + 2), iat |-> PyDt(t), nbf |-> PyDt(t)],
                       secret.val[2], alg.val[2])

create_access_token(claims, expires_minutes, e, t) ==
    LET secret == SettingsGetattr(e, "jwt_secret_key")
    IN  IF secret.exc # "" THEN secret
        ELSE IF ~Truthy(secret.val)
        THEN Raise("ValueError", "JWT secret key is not configured")
        ELSE
        LET conf == SettingsGetattr(e, "jwt_expire_minutes")
            mins == IF expires_minutes # None THEN Ok(expires_minutes[2])
                    ELSE IF conf.exc # "" THEN conf
                    ELSE ParseInt(conf.val)
        IN  IF mins.exc # "" THEN mins
            ELSE
            LET token_claims ==
                    DictSet(DictSet(DictSet(claims,
                        "exp", PyDt(t + mins.val)), "iat", PyDt(t)), "nbf", PyDt(t))
                alg == SettingsGetattr(e, "jwt_algorithm")
            IN  IF alg.exc # "" THEN alg
                ELSE JwtEncode(token_claims, secret.val[2], alg.val[2])

decode_access_token(token, e, t) ==
    LET secret == SettingsGetattr(e, "jwt_secret_key")
    IN  IF secret.exc # "" THEN secret
        ELSE IF ~Truthy(secret.val)
        THEN Raise("AccessTokenError", "Authentication service is misconfigured")
        ELSE
        LET alg == SettingsGetattr(e, "jwt_algorithm")
        IN  IF alg.exc # "" THEN alg
            ELSE
            LET r == JwtDecode(token, secret.val[2], {alg.val[2]}, None, None, t, "JWTError")
            IN  CASE r.exc = "" -> r
                  [] r.exc = "ExpiredSignatureError" ->
                        Raise("AccessTokenError", "Token has expired")
                  [] r.exc \in {"JWTError", "JWTClaimsError"} ->
                        Raise("AccessTokenError", "Invalid authentication token")
                  [] OTHER -> r

(* The tests `"iss" in str(e).lower() or "issuer" in ...` and the like, on  *)
(* the texts python-jose gives its JWTClaimsError.                          *)
(* Mutant: the issuer test matches every claims error *)
MentionsIssuer_any(m) == TRUE

MentionsIssuer(m) ==
    m \in {"Invalid issuer", "Issued At claim (iat) must be an integer."}
MentionsAudience(m) == m \in {"Invalid audience"}

OidcIssuerUrl == PyStr("oidc_issuer_url")
OidcClientId == PyStr("oidc_client_id")

IDTokenValidationError(message, error_type) ==
    [exc |-> "IDTokenValidationError", msg |-> message, val |-> error_type]

(* validate_id_token.  jwks is what get_jwks answered: whether the fetch    *)
(* succeeded and, per kid, the key material ("" when n/e cannot be turned   *)
(* into a public key).                                                      *)
validate_id_token(id_token, jwks, t, sigexc) ==
    IF id_token.alg = "malformed"
    THEN IDTokenValidationError("Token validation failed", "jwt_error")
    ELSE IF id_token.kid = ""
    THEN IDTokenValidationError("Token format is invalid", "missing_kid")
    ELSE IF ~jwks.fetch_ok
    THEN IDTokenValidationError("Unable to retrieve authentication keys", "jwks_fetch_error")
    ELSE IF id_token.kid \notin DOMAIN jwks.keys
    THEN IDTokenValidationError("Authentication key validation failed", "key_not_found")
    ELSE IF jwks.keys[id_token.kid] = ""
    THEN IDTokenValidationError("Authentication key processing failed", "key_conversion_error")
    ELSE
    LET r == JwtDecode(id_token, jwks.keys[id_token.kid], {"RS256"},
                       OidcClientId, OidcIssuerUrl, t, sigexc)
    IN  CASE r.exc = "" -> r
          [] r.exc = "ExpiredSignatureError" ->
                IDTokenValidationError("Token has expired", "token_expired")
          [] r.exc = "JWSSignatureError" ->
                IDTokenValidationError("Token signature verification failed", "invalid_signature")
          [] r.exc = "JWTClaimsError" /\ MentionsIssuer(r.msg) ->
                IDTokenValidationError("Token issuer validation failed", "invalid_issuer")
          [] r.exc = "JWTClaimsError" /\ ~MentionsIssuer(r.msg) /\ MentionsAudience(r.msg) ->
                IDTokenValidationError("Token audience validation failed", "invalid_audience")
          [] r.exc = "JWTClaimsError" /\ ~MentionsIssuer(r.msg) /\ ~MentionsAudience(r.msg) ->
                IDTokenValidationError("Token claims validation failed", "invalid_claims")
          [] r.exc = "JWTError" ->
                IDTokenValidationError("Token validation failed", "jwt_error")
          [] OTHER ->
                IDTokenValidationError("Authentication processing failed", "unexpected_error")

(* A URL: base and path, then the separator the code writes and the        *)
(* urlencoded parameters that follow it.                                    *)
Url(base, path, sep, params) == [base |-> base, path |-> path, sep |-> sep, params |-> params]
NoUrl == Url("", "", "", EmptyDict)
UrlQuery(u) == IF u.sep = "?" THEN u.params ELSE EmptyDict
UrlFragment(u) == IF u.sep = "#" THEN u.params ELSE EmptyDict

build_authorization_url(state, nonce, code_challenge, redirect_uri) ==
    LET params == [client_id |-> OidcClientId, response_type |-> PyStr("code"),
                   scope |-> PyStr("oidc_scope"), redirect_uri |-> redirect_uri,
                   state |-> state, nonce |-> nonce]
    IN  Url("oidc_issuer_url", "/authorize", "?",
            IF code_challenge # None
            THEN DictSet(DictSet(params, "code_challenge", code_challenge),
                         "code_challenge_method", PyStr("S256"))
            ELSE params)

-----------------------------------------------------------------------------
(* dependencies/auth.py and schemas/auth.py *)

(* raise HTTPException(status_code, detail) *)
HTTPException(status_code, detail) == [exc |-> "HTTPException", msg |-> detail, val |-> status_code]

(* The status the framework answers for the outcome of a dependency or a    *)
(* handler: that of the HTTPException, 500 for any other exception.         *)
StatusOf(r) == IF r.exc = "" THEN 200 ELSE IF r.exc = "HTTPException" THEN r.val ELSE 500

(* datetime.fromisoformat, on the strings isoformat produces *)
FromIsoFormat(v) ==
    IF \E n \in 0..(MaxTime + TickStep) : v = PyStr("T" \o ToString(n))
    THEN PyDt(CHOOSE n \in 0..(MaxTime + TickStep) : v = PyStr("T" \o ToString(n)))
    ELSE None

(* UserResponse(...): pydantic accepts a str for id, email and role, a str  *)
(* or None for name, and raises ValidationError otherwise.                  *)
UserResponse(id, email, name, role, last_login) ==
    IF IsStr(id) /\ IsStr(email) /\ IsStr(role) /\ (name = None \/ IsStr(name))
    THEN Ok([id |-> id, email |-> email, name |-> name, role |-> role,
             last_login |-> last_login])
    ELSE Raise("ValidationError", "Input should be a valid string")

(* credentials: what HTTPBearer(auto_error=False) extracted, None without   *)
(* an Authorization header                                                  *)
get_bearer_token(credentials) ==
    IF credentials # None /\ credentials.scheme = "bearer"
    THEN Ok(credentials.credentials)
    ELSE HTTPException(401, "Authentication credentials were not provided")

get_current_user(credentials, e, t) ==
    LET token == get_bearer_token(credentials)
    IN  IF token.exc # "" THEN token
        ELSE
        LET decoded == decode_access_token(token.val, e, t)
        IN  IF decoded.exc = "AccessTokenError" THEN HTTPException(401, decoded.msg)
            ELSE IF decoded.exc # "" THEN decoded
            ELSE
            LET payload == decoded.val
                user_id == DictGet(payload, "sub", None)
                last_login_raw == DictGet(payload, "last_login", None)
            IN  IF ~Truthy(user_id)
                THEN HTTPException(401, "Invalid authentication token")
                ELSE UserResponse(user_id,
                                  DictGet(payload, "email", PyStr("")),
                                  DictGet(payload, "name", None),
                                  DictGet(payload, "role", PyStr("user")),
                                  IF IsStr(last_login_raw) THEN FromIsoFormat(last_login_raw)
                                  ELSE None)

(* Mutant: the role is not looked at *)
get_admin_user_any(current_user) == current_user

get_admin_user(current_user) ==
    IF current_user.exc # "" THEN current_user
    ELSE IF current_user.val.role # PyStr("admin")
    THEN HTTPException(403, "Admin access required")
    ELSE current_user

-----------------------------------------------------------------------------
(* models/auth.py *)

(* A row of table users.  role has the column default "user", created_at    *)
(* the server default now().                                                *)
User(id, email, name, role, created_at, last_login) ==
    [id |-> id, email |-> email, name |-> name, role |-> role,
     created_at |-> created_at, last_login |-> last_login]

(* A row of table oidc_states *)
OIDCState(id, state, nonce, code_verifier, expires_at, created_at) ==
    [id |-> id, state |-> state, nonce |-> nonce, code_verifier |-> code_verifier,
     expires_at |-> expires_at, created_at |-> created_at]

-----------------------------------------------------------------------------
(* services/auth.py: AuthService.  Each operator takes the committed table  *)
(* and answers the value returned with the table as committed afterwards.   *)

(* Mutant: the sweep of expired rows is left out *)
DeleteExpired_none(tbl, t) == tbl

(* delete(OIDCState).where(OIDCState.expires_at < now) *)
DeleteExpired(tbl, t) == {r \in tbl : ~(r.expires_at < t)}

(* Mutant: the row is stored without the 10 minutes of life *)
store_oidc_state_noexpiry(tbl, id, state, nonce, code_verifier, t) ==
    DeleteExpired(tbl, t) \cup {OIDCState(id, state, nonce, code_verifier, t, t)}

store_oidc_state(tbl, id, state, nonce, code_verifier, t) ==
    DeleteExpired(tbl, t) \cup {OIDCState(id, state, nonce, code_verifier, t + StateTTL, t)}

(* Mutant: the row found is returned and not deleted *)
get_and_delete_oidc_state_keep(tbl, state, t) ==
    LET swept == DeleteExpired(tbl, t)
        found == {r \in swept : r.state = state}
    IN  IF found = {}
        THEN [data |-> None, table |-> tbl]
        ELSE LET oidc_state == CHOOSE r \in found : TRUE
             IN  [data |-> [nonce |-> oidc_state.nonce,
                            code_verifier |-> oidc_state.code_verifier],
                  table |-> swept]

(* Mutant: the data returned is that of the oldest pending row *)
get_and_delete_oidc_state_oldest(tbl, state, t) ==
    LET swept == DeleteExpired(tbl, t)
        found == {r \in swept : r.state = state}
    IN  IF found = {}
        THEN [data |-> None, table |-> tbl]
        ELSE LET oidc_state == CHOOSE r \in found : TRUE
                 oldest == CHOOSE r \in swept : \A q \in swept : r.id <= q.id
             IN  [data |-> [nonce |-> oldest.nonce,
                            code_verifier |-> oldest.code_verifier],
                  table |-> swept \ {oidc_state}]

(* get_and_delete_oidc_state: the sweep, the lookup, and on a hit the       *)
(* delete and the commit.  On a miss nothing is committed and the session   *)
(* is closed by get_db, which rolls the sweep back.                         *)
get_and_delete_oidc_state(tbl, state, t) ==
    LET swept == DeleteExpired(tbl, t)
        found == {r \in swept : r.state = state}
    IN  IF found = {}
        THEN [data |-> None, table |-> tbl]
        ELSE LET oidc_state == CHOOSE r \in found : TRUE
             IN  [data |-> [nonce |-> oidc_state.nonce,
                            code_verifier |-> oidc_state.code_verifier],
                  table |-> swept \ {oidc_state}]

(* Mutant: an existing row is replaced by a freshly built one *)
get_or_create_user_replace(tbl, platform_sub, email, name, t) ==
    LET user == User(platform_sub, email, name, "user", t, PyDt(t))
    IN  [user |-> user, table |-> {u \in tbl : u.id # platform_sub} \cup {user}]

get_or_create_user(tbl, platform_sub, email, name, t) ==
    LET found == {u \in tbl : u.id = platform_sub}
    IN  IF found # {}
        THEN LET old == CHOOSE u \in found : TRUE
                 user == [old EXCEPT !.email = email, !.name = name, !.last_login = PyDt(t)]
             IN  [user |-> user, table |-> (tbl \ {old}) \cup {user}]
        ELSE LET user == User(platform_sub, email, name, "user", t, PyDt(t))
             IN  [user |-> user, table |-> tbl \cup {user}]

(* datetime.isoformat() *)
IsoFormat(d) == PyStr("T" \o ToString(d[2]))

issue_app_token(user, e, t) ==
    LET conf == SettingsGetattr(e, "jwt_expire_minutes")
        parsed == ParseInt(IF conf.exc = "" THEN conf.val ELSE PyInt(DefaultExpireMinutes))
        expires_minutes == IF parsed.exc = "" THEN parsed.val ELSE DefaultExpireMinutes
        base == [sub |-> PyStr(user.id), email |-> PyStr(user.email), role |-> PyStr(user.role)]
        named == IF Truthy(user.name) THEN DictSet(base, "name", user.name) ELSE base
        claims == IF user.last_login # None
                  THEN DictSet(named, "last_login", IsoFormat(user.last_login))
                  ELSE named
        token == create_access_token(claims, PyInt(expires_minutes), e, t)
    IN  IF token.exc # "" THEN token
        ELSE Ok([token |-> token.val, expires_at |-> t + expires_minutes, claims |-> claims])

(* Mutant: an existing user is promoted without the configured email *)
initialize_admin_user_keep_email(tbl, e, t) ==
    LET id_conf == SettingsGetattr(e, "admin_user_id")
        email_conf == SettingsGetattr(e, "admin_user_email")
        admin_user_id == IF id_conf.exc = "" THEN id_conf.val ELSE PyStr("")
        admin_user_email == IF email_conf.exc = "" THEN email_conf.val ELSE PyStr("")
        found == {u \in tbl : u.id = admin_user_id[2]}
    IN  IF ~Truthy(admin_user_id) \/ ~Truthy(admin_user_email) THEN tbl
        ELSE IF found # {}
        THEN LET user == CHOOSE u \in found : TRUE
             IN  IF user.role # "admin"
                 THEN (tbl \ {user}) \cup {[user EXCEPT !.role = "admin"]}
                 ELSE tbl
        ELSE tbl \cup {User(admin_user_id[2], admin_user_email[2], None, "admin", t, None)}

(* initialize_admin_user, on the committed users table *)
initialize_admin_user(tbl, e, t) ==
    LET id_conf == SettingsGetattr(e, "admin_user_id")
        email_conf == SettingsGetattr(e, "admin_user_email")
        admin_user_id == IF id_conf.exc = "" THEN id_conf.val ELSE PyStr("")
        admin_user_email == IF email_conf.exc = "" THEN email_conf.val ELSE PyStr("")
        found == {u \in tbl : u.id = admin_user_id[2]}
    IN  IF ~Truthy(admin_user_id) \/ ~Truthy(admin_user_email) THEN tbl
        ELSE IF found # {}
        THEN LET user == CHOOSE u \in found : TRUE
             IN  IF user.role # "admin"
                 THEN (tbl \ {user}) \cup
                        {[user EXCEPT !.role = "admin", !.email = admin_user_email[2]]}
                 ELSE tbl
        ELSE tbl \cup {User(admin_user_id[2], admin_user_email[2], None, "admin", t, None)}

-----------------------------------------------------------------------------
(* routers/auth.py *)

derive_name_from_email(email) ==
    CASE email = "ann@example.org" -> "ann"
      [] email = "bob@example.org" -> "bob"
      [] OTHER -> email

Redirect(url) == [status |-> 302, url |-> url]

redirect_with_error(message) ==
    Redirect(Url("frontend_url", "/auth/error", "?", [msg |-> message]))

(* login: what it commits and what it answers *)
login(tbl, k, t) ==
    LET state == generate_state(k)
        nonce == generate_nonce(k)
        code_verifier == generate_code_verifier(k)
        code_challenge == generate_code_challenge(code_verifier)
    IN  [table |-> store_oidc_state(tbl, k, state, nonce, code_verifier, t),
         resp |-> Redirect(build_authorization_url(state, nonce, code_challenge,
                                                   PyStr("backend_url/api/v1/auth/callback")))]

MsgGeneric ==
    <<"Authentication processing failed. Please try again or contact support if the issue persists.">>

(* callback.  reply is what the provider's token endpoint does with the     *)
(* POST, jwks what its JWKS endpoint answers, db_ok whether the users       *)
(* table can be written.  The result carries the response, both tables as   *)
(* committed, the state data obtained (None if none) and the POST made      *)
(* (None if none).                                                          *)
callback(code, state, error, reply, jwks, sigexc, db_ok, tbl, usr, e, t) ==
    LET out(r, tb, us, data, post) ==
            [resp |-> r, table |-> tb, users |-> us, data |-> data, post |-> post]
    IN
    IF Truthy(error)
    THEN out(redirect_with_error(<<"OIDC error: ", error[2]>>), tbl, usr, None, None)
    ELSE IF ~Truthy(code) \/ ~Truthy(state)
    THEN out(redirect_with_error(<<"Missing code or state parameter">>), tbl, usr, None, None)
    ELSE
    LET got == get_and_delete_oidc_state(tbl, state, t)
    IN
    IF got.data = None
    THEN out(redirect_with_error(<<"Invalid or expired state parameter">>),
             got.table, usr, None, None)
    ELSE
    LET nonce == got.data.nonce
        code_verifier == got.data.code_verifier
        post == [code |-> code, state |-> state, code_verifier |-> code_verifier]
        fail(message) == out(redirect_with_error(message), got.table, usr, got.data, post)
    IN
    IF ~reply.net_ok THEN fail(MsgGeneric)
    ELSE IF reply.status # 200 THEN fail(<<"Token exchange failed: ", reply.text>>)
    ELSE IF ~reply.json_ok THEN fail(MsgGeneric)
    ELSE IF ~reply.has_id_token THEN fail(<<"No ID token received">>)
    ELSE
    LET v == validate_id_token(reply.id_token, jwks, t, sigexc)
    IN
    IF v.exc # "" THEN fail(<<"Authentication failed: ", v.msg>>)
    ELSE
    LET id_claims == v.val
    IN
    IF DictGet(id_claims, "nonce", None) # nonce THEN fail(<<"Invalid nonce">>)
    ELSE IF "sub" \notin DOMAIN id_claims THEN fail(MsgGeneric)
    ELSE IF ~db_ok THEN fail(MsgGeneric)
    ELSE
    LET email == DictGet(id_claims, "email", PyStr(""))[2]
        given == DictGet(id_claims, "name", None)
        name == IF Truthy(given) THEN given ELSE PyStr(derive_name_from_email(email))
        goc == get_or_create_user(usr, id_claims["sub"][2], email, name, t)
        app == issue_app_token(goc.user, e, t)
    IN
    IF app.exc # ""
    THEN out(redirect_with_error(MsgGeneric), got.table, goc.table, got.data, post)
    ELSE out(Redirect(Url("backend_url", "/auth/callback", "?",
                          [token |-> app.val.token,
                           expires_at |-> PyInt(app.val.expires_at),
                           token_type |-> PyStr("Bearer")])),
             got.table, goc.table, got.data, post)

-----------------------------------------------------------------------------
(* The inputs of the OIDC flow *)

EnvConfigured ==
    [x \in {"JWT_SECRET_KEY", "JWT_ALGORITHM", "JWT_EXPIRE_MINUTES",
             "ADMIN_USER_ID", "ADMIN_USER_EMAIL"} |->
        CASE x = "JWT_SECRET_KEY" -> "k1"
          [] x = "JWT_ALGORITHM" -> "HS256"
          [] x = "JWT_EXPIRE_MINUTES" -> "2"
          [] x = "ADMIN_USER_ID" -> "u1"
          [] OTHER -> "root@example.org"]
EnvNoSecret ==
    [x \in {"JWT_ALGORITHM", "JWT_EXPIRE_MINUTES"} |->
        CASE x = "JWT_ALGORITHM" -> "HS256" [] OTHER -> "2"]
EnvEmptySecret == [EnvConfigured EXCEPT !["JWT_SECRET_KEY"] = ""]

(* What the identity provider says about the person who logged in *)
Profiles ==
    { [sub |-> PyStr("u1"), email |-> PyStr("ann@example.org"), name |-> PyStr("Ann")],
      [sub |-> PyStr("u1"), email |-> PyStr("bob@example.org")],
      [sub |-> PyStr("u2")],
      [email |-> PyStr("ann@example.org")] }
Profile1 == [sub |-> PyStr("u1"), email |-> PyStr("ann@example.org"), name |-> PyStr("Ann")]

IdpKey == "idp_key"
IdToken(alg, kid, key, iss, aud, exp, nonce, profile) ==
    [alg |-> alg, kid |-> kid, key |-> key,
     payload |-> DictSet(DictSet(DictSet(
                    IF nonce = None THEN profile ELSE DictSet(profile, "nonce", nonce),
                    "iss", iss), "aud", aud), "exp", PyInt(exp))]
GoodIdToken(nonce, profile) ==
    IdToken("RS256", "kid1", IdpKey, OidcIssuerUrl, OidcClientId, MaxTime + TickStep + 1,
            nonce, profile)

Reply(net_ok, status, json_ok, has_id_token, id_token, text) ==
    [net_ok |-> net_ok, status |-> status, json_ok |-> json_ok,
     has_id_token |-> has_id_token, id_token |-> id_token, text |-> text]
ReplyWith(id_token) == Reply(TRUE, 200, TRUE, TRUE, id_token, "")

Jwks(fetch_ok, keys) == [fetch_ok |-> fetch_ok, keys |-> keys]
GoodJwks == Jwks(TRUE, [k \in {"kid1"} |-> IdpKey])

Run(reply, jwks, sigexc, db_ok) ==
    [reply |-> reply, jwks |-> jwks, sigexc |-> sigexc, db_ok |-> db_ok]

(* The provider behaves: a valid ID token for some profile, carrying the    *)
(* nonce of some login (0: of none) or no nonce.                            *)
GoodRuns ==
    { Run(ReplyWith(GoodIdToken(n, p)), GoodJwks, "JWTError", TRUE) :
        n \in {NonceVal(k) : k \in 0..MaxLogins}, p \in Profiles }

(* One thing goes wrong after the state was accepted *)
FailureRuns(n) ==
    LET good == GoodIdToken(n, Profile1)
        tok(t) == Run(ReplyWith(t), GoodJwks, "JWTError", TRUE)
    IN  { Run(Reply(FALSE, 0, FALSE, FALSE, good, ""), GoodJwks, "JWTError", TRUE),
          Run(Reply(TRUE, 400, TRUE, FALSE, good, "invalid_grant"), GoodJwks, "JWTError", TRUE),
          Run(Reply(TRUE, 200, FALSE, FALSE, good, "<html>"), GoodJwks, "JWTError", TRUE),
          Run(Reply(TRUE, 200, TRUE, FALSE, good, ""), GoodJwks, "JWTError", TRUE),
          tok([good EXCEPT !.alg = "malformed"]),
          tok([good EXCEPT !.kid = ""]),
          tok([good EXCEPT !.kid = "kid9"]),
          Run(ReplyWith(good), Jwks(FALSE, GoodJwks.keys), "JWTError", TRUE),
          Run(ReplyWith(good), Jwks(TRUE, [k \in {"kid1"} |-> ""]), "JWTError", TRUE),
          tok([good EXCEPT !.key = "attacker_key"]),
          Run(ReplyWith([good EXCEPT !.key = "attacker_key"]), GoodJwks, "JWSSignatureError", TRUE),
          tok([good EXCEPT !.payload["iss"] = PyStr("other_issuer")]),
          tok([good EXCEPT !.payload["aud"] = PyStr("other_client")]),
          tok([good EXCEPT !.payload["exp"] = PyInt(-1)]),
          tok([good EXCEPT !.payload["sub"] = PyInt(7)]),
          tok(GoodIdToken(None, Profile1)),
          Run(ReplyWith(good), GoodJwks, "JWTError", FALSE) }

Codes == {None, PyStr("code1")}
ProviderErrors == {None, PyStr("access_denied")}
PresentedStates(g) == {None, StateVal(0)} \cup {StateVal(k) : k \in 1..g}

(* Which step of the callback a request's inputs make fail first ("none":  *)
(* no step this list names).  It labels the request; the handler does not   *)
(* read it.                                                                  *)
FailureMode(code, state, error, run, tbl, t) ==
    LET rows == {r \in tbl : r.state = state /\ r.expires_at >= t}
        tok == run.reply.id_token
    IN  CASE error # None /\ error # PyStr("") -> "provider_error"
          [] error \in {None, PyStr("")} /\ (code \in {None, PyStr("")} \/ state \in {None, PyStr("")})
                -> "missing_code_or_state"
          [] error \in {None, PyStr("")} /\ code \notin {None, PyStr("")}
             /\ state \notin {None, PyStr("")} /\ rows = {} -> "bad_state"
          [] OTHER ->
                IF ~run.reply.net_ok THEN "none"
                ELSE IF run.reply.status # 200 THEN "token_http"
                ELSE IF ~run.reply.json_ok THEN "none"
                ELSE IF ~run.reply.has_id_token THEN "no_id_token"
                ELSE IF tok.alg # "RS256" \/ ~run.jwks.fetch_ok
                        \/ tok.kid \notin DOMAIN run.jwks.keys THEN "none"
                ELSE IF run.jwks.keys[tok.kid] = "" THEN "none"
                ELSE IF tok.key # run.jwks.keys[tok.kid] THEN "signature"
                ELSE IF tok.payload["exp"][2] < t THEN "none"
                ELSE IF tok.payload["aud"] # OidcClientId THEN "audience"
                ELSE IF tok.payload["iss"] # OidcIssuerUrl THEN "issuer"
                ELSE IF ~IsStr(DictGet(tok.payload, "sub", PyStr(""))) THEN "none"
                ELSE IF \E r \in rows : DictGet(tok.payload, "nonce", None) # r.nonce
                THEN "nonce"
                ELSE "none"

(* Whether a request's inputs pass every check the callback makes before it  *)
(* touches the users table: the state row is there and unexpired, the token *)
(* endpoint answers 200 with an id_token, validate_id_token returns claims  *)
(* and their nonce is the row's.  A label, like FailureMode.                *)
ChecksPassed(code, state, error, run, tbl, t) ==
    LET rows == {r \in tbl : r.state = state /\ r.expires_at >= t}
        claims == validate_id_token(run.reply.id_token, run.jwks, t, run.sigexc)
    IN  /\ ~Truthy(error) /\ Truthy(code) /\ Truthy(state)
        /\ rows # {}
        /\ run.reply.net_ok /\ run.reply.status = 200
        /\ run.reply.json_ok /\ run.reply.has_id_token
        /\ claims.exc = ""
        /\ \A r \in rows : DictGet(claims.val, "nonce", None) = r.nonce

(* The nonce claim of the ID token the provider returns in this run *)
PresentedNonce(run) == DictGet(run.reply.id_token.payload, "nonce", None)

NoRequest ==
    [op |-> "none", code |-> None, state |-> None, error |-> None, mode |-> "none",
     passed |-> FALSE, id_nonce |-> None]
NoResponse == [status |-> 0, url |-> NoUrl]

-----------------------------------------------------------------------------
(* The idle values of the variables a specification does not use *)

NotRun == [exc |-> "not run", msg |-> "", val |-> None]
NotUsed == [res |-> NotRun, own |-> FALSE, at |-> 0]
JwtIdle ==
    /\ j_claims = EmptyDict /\ j_minutes = None /\ j_created = NotRun
    /\ j_issued_at = 0 /\ j_decoded = NotUsed /\ j_user = NotUsed
NoFile == [exists |-> FALSE, comments |-> FALSE, vars |-> EmptyDict]
AdminIdle ==
    /\ a_token = None /\ a_endpoint = "" /\ a_status = 0 /\ a_reads = 0 /\ a_writes = 0
    /\ backend_env = NoFile /\ frontend_env = NoFile /\ buckets = {}
DbIdle ==
    /\ engine = 0 /\ async_session_maker = 0 /\ initialized = FALSE
    /\ init_lock = 0 /\ table_lock = 0
    /\ engines_created = 0 /\ makers_created = 0 /\ engines_closed = 0
    /\ create_all_runs = 0 /\ calls = 0 /\ running = 0
    /\ ct_epoch = 0 /\ tables_created = FALSE
    /\ pc = <<>> /\ op = <<>> /\ outcome = <<>>
AuthIdle ==
    /\ oidc_states = {} /\ users = {} /\ gen = 0 /\ nreq = 0
    /\ req = NoRequest /\ resp = NoResponse /\ consumed = <<>> /\ token_posts = {}
FanIdle ==
    /\ f_kind = "" /\ f_n = 0 /\ f_engine = FALSE /\ f_state = "" /\ f_pc = <<>>
    /\ sem_value = 0 /\ sem_waiters = <<>>
ExIdle == x_verify = None /\ x_resp = NotRun /\ x_n = 0
PayIdle ==
    /\ stripe_api_key = FALSE /\ p_op = "" /\ p_result = NotRun
    /\ p_session_calls = 0 /\ p_n = 0
LamIdle ==
    /\ dynamic_routes_initialized = FALSE /\ seo_paths = {} /\ l_event = None
    /\ l_result = NotRun
SesIdle ==
    /\ db_backend = "" /\ s_pc = <<>> /\ s_found = <<>> /\ s_data = <<>> /\ s_locks = {}
BootIdle ==
    /\ services_initialized = FALSE /\ ev_loop = "" /\ b_calls = <<>> /\ b_result = ""
    /\ b_n = 0
StreamIdle == g_pc = "" /\ g_events = <<>> /\ g_chunks = 0 /\ g_error = None
MockIdle ==
    /\ m_exists = {} /\ m_rows = <<>> /\ m_kind = <<>> /\ m_start = <<>> /\ m_load = <<>>
    /\ m_runs = 0 /\ m_raised = FALSE
LaterIdle == BootIdle /\ StreamIdle /\ MockIdle
LateIdle == fresh_call = 0 /\ LaterIdle
RestIdle == FanIdle /\ ExIdle /\ PayIdle /\ LamIdle /\ SesIdle /\ LateIdle

-----------------------------------------------------------------------------
(* Spec: login and callback requests, handled one at a time *)

Init ==
    /\ now = 0
    /\ env \in {EnvConfigured, EnvNoSecret}
    /\ AuthIdle /\ JwtIdle /\ AdminIdle /\ DbIdle /\ RestIdle

(* The startup hook (lifespan, initialize_services_once) of a process that  *)
(* shares the database                                                       *)
AdminBootstrap ==
    /\ users' = initialize_admin_user(users, env, now)
    /\ UNCHANGED <<now, env, oidc_states, gen, nreq, req, resp, consumed, token_posts>>
    /\ UNCHANGED <<jwtVars, adminVars, dbVars, restVars>>

Tick ==
    /\ now + TickStep <= MaxTime
    /\ now' = now + TickStep
    /\ UNCHANGED <<env, oidc_states, users, gen, nreq, req, resp, consumed, token_posts>>
    /\ UNCHANGED <<jwtVars, adminVars, dbVars, restVars>>

Login ==
    /\ gen < MaxLogins /\ nreq < MaxRequests
    /\ \E r \in {login(oidc_states, gen + 1, now)} :
           /\ oidc_states' = r.table
           /\ resp' = r.resp
    /\ gen' = gen + 1
    /\ nreq' = nreq + 1
    /\ req' = [NoRequest EXCEPT !.op = "login"]
    /\ UNCHANGED <<now, env, users, consumed, token_posts>>
    /\ UNCHANGED <<jwtVars, adminVars, dbVars, restVars>>

Handle(code, state, error, run) ==
    /\ nreq < MaxRequests
    /\ \E r \in {callback(code, state, error, run.reply, run.jwks, run.sigexc, run.db_ok,
                         oidc_states, users, env, now)} :
           /\ oidc_states' = r.table
           /\ users' = r.users
           /\ resp' = r.resp
           /\ consumed' = IF r.data = None THEN consumed ELSE Append(consumed, state)
           /\ token_posts' = IF r.post = None THEN token_posts ELSE token_posts \cup {r.post}
    /\ nreq' = nreq + 1
    /\ req' = [op |-> "callback", code |-> code, state |-> state, error |-> error,
                mode |-> FailureMode(code, state, error, run, oidc_states, now),
                passed |-> ChecksPassed(code, state, error, run, oidc_states, now),
                id_nonce |-> PresentedNonce(run)]
    /\ UNCHANGED <<now, env, gen>>
    /\ UNCHANGED <<jwtVars, adminVars, dbVars, restVars>>

(* The provider reports an error, or code or state is missing *)
CallbackRejected ==
    \E code \in Codes, state \in PresentedStates(gen), error \in ProviderErrors :
        /\ Truthy(error) \/ ~Truthy(code) \/ ~Truthy(state)
        /\ Handle(code, state, error, CHOOSE run \in GoodRuns : TRUE)

(* code and state are there and the provider does its part *)
CallbackGood ==
    \E state \in PresentedStates(gen) \ {None}, run \in GoodRuns :
        Handle(PyStr("code1"), state, None, run)

(* code and state are there and a later step fails *)
CallbackFailing ==
    \E state \in PresentedStates(gen) \ {None} :
        \E run \in FailureRuns(NonceVal(state[2])) :
            Handle(PyStr("code1"), state, None, run)

Next == Tick \/ AdminBootstrap \/ Login \/ CallbackRejected \/ CallbackGood \/ CallbackFailing

Spec == Init /\ [][Next]_vars

-----------------------------------------------------------------------------
(* Properties of the OIDC flow (Spec) *)

Range(q) == {q[i] : i \in 1..Len(q)}
Handled(kind) == nreq' # nreq /\ req'.op = kind
WellFormed(r) == r.code \notin {None, PyStr("")} /\ r.error \in {None, PyStr("")}
IsErrorRedirect(r, message) ==
    /\ r.status = 302
    /\ r.url.base = "frontend_url" /\ r.url.path = "/auth/error"
    /\ DOMAIN r.url.params = {"msg"}
    /\ r.url.params.msg = message
MsgInvalidState == <<"Invalid or expired state parameter">>

(* C1: a state is accepted at most once.  get_and_delete_oidc_state returns *)
(* data only for a state it has not returned data for before, and a         *)
(* callback presenting a state already consumed is answered with the        *)
(* 'Invalid or expired state parameter' error redirect.                     *)
C1_StateAcceptedAtMostOnce ==
    [][ Handled("callback") =>
          /\ consumed' # consumed => req'.state \notin Range(consumed)
          /\ (WellFormed(req') /\ req'.state \in Range(consumed)) =>
                (consumed' = consumed /\ IsErrorRedirect(resp', MsgInvalidState)) ]_vars

(* C1 witness: a callback presented a state consumed earlier and was turned away *)
C1_Witness ==
    /\ req.op = "callback" /\ WellFormed(req)
    /\ req.state \in Range(consumed)
    /\ IsErrorRedirect(resp, MsgInvalidState)

(* C2: a callback presenting a state whose row has expires_at earlier than  *)
(* now is answered with the error redirect: no state data is returned, the  *)
(* token endpoint is not contacted, no user is written, no token is issued. *)
C2_ExpiredStateRejected ==
    [][ ( /\ Handled("callback") /\ WellFormed(req')
          /\ \E r \in oidc_states : r.state = req'.state /\ r.expires_at < now )
        => /\ IsErrorRedirect(resp', MsgInvalidState)
           /\ consumed' = consumed
           /\ token_posts' = token_posts
           /\ users' = users ]_vars

(* C2 witness: the row of the state presented is expired and the callback   *)
(* was answered with the error redirect                                     *)
C2_Witness ==
    /\ req.op = "callback" /\ WellFormed(req)
    /\ \E r \in oidc_states : r.state = req.state /\ r.expires_at < now
    /\ IsErrorRedirect(resp, MsgInvalidState)

EnumeratedModes ==
    {"provider_error", "missing_code_or_state", "bad_state", "token_http",
     "no_id_token", "signature", "issuer", "audience", "nonce"}

(* The failure a message of the error page tells the user about *)
MessageMode(m) ==
    CASE m[1] = "OIDC error: " -> "provider_error"
      [] m[1] = "Missing code or state parameter" -> "missing_code_or_state"
      [] m[1] = "Invalid or expired state parameter" -> "bad_state"
      [] m[1] = "Token exchange failed: " -> "token_http"
      [] m[1] = "No ID token received" -> "no_id_token"
      [] m[1] = "Invalid nonce" -> "nonce"
      [] m[1] = "Authentication failed: " ->
            ( CASE m[2] \in {"Token signature verification failed",
                             "Token validation failed"} -> "signature"
                [] m[2] = "Token issuer validation failed" -> "issuer"
                [] m[2] = "Token audience validation failed" -> "audience"
                [] OTHER -> "none" )
      [] OTHER -> "none"

(* C7: each enumerated callback failure ends in a 302 redirect to the       *)
(* frontend's /auth/error page with a message, and the message tells the    *)
(* failure modes apart; none ends in an HTTP error status.                  *)
C7_FailuresRedirectWithDistinctMessages ==
    (req.op = "callback" /\ req.mode \in EnumeratedModes) =>
        /\ resp.status = 302
        /\ resp.url.base = "frontend_url" /\ resp.url.path = "/auth/error"
        /\ DOMAIN resp.url.params = {"msg"}
        /\ resp.url.params.msg # <<>>
        /\ MessageMode(resp.url.params.msg) = req.mode

(* C7 witness: an ID token for another audience was turned into the error redirect *)
C7_Witness ==
    /\ req.op = "callback" /\ req.mode = "audience"
    /\ resp.status = 302 /\ resp.url.path = "/auth/error"

(* C8: when login answers, the row with the state, nonce and verifier it    *)
(* generated is committed with expires_at = now + 10 minutes, and the       *)
(* redirect to the authorization endpoint carries that state, that nonce    *)
(* and the S256 challenge of the stored verifier.                           *)
C8_LoginStoresBeforeRedirect ==
    [][ Handled("login") =>
          /\ resp'.status = 302
          /\ resp'.url.base = "oidc_issuer_url" /\ resp'.url.path = "/authorize"
          /\ {"state", "nonce", "code_challenge", "code_challenge_method"}
                \subseteq DOMAIN resp'.url.params
          /\ resp'.url.params.code_challenge_method = PyStr("S256")
          /\ \E r \in oidc_states' :
                /\ r.state = resp'.url.params.state
                /\ r.nonce = resp'.url.params.nonce
                /\ resp'.url.params.code_challenge = <<"b64url-sha256", r.code_verifier>>
                /\ r.expires_at = now + 10 ]_vars

(* C8 witness: login has answered and the row of the state it sent is in the table *)
C8_Witness ==
    /\ req.op = "login" /\ resp.status = 302
    /\ \E r \in oidc_states : r.state = resp.url.params.state

(* C9: on a successful callback the application token is in the fragment    *)
(* of the redirect URL and not in its query string.                         *)
C9_TokenInFragment ==
    "token" \in DOMAIN resp.url.params =>
        /\ "token" \in DOMAIN UrlFragment(resp.url)
        /\ "token" \notin DOMAIN UrlQuery(resp.url)

(* C10: get_or_create_user leaves exactly one row with id = sub; it creates *)
(* the row when there is none and otherwise changes only email, name and    *)
(* last_login, keeping role and created_at; every other row is untouched.   *)
C10_GetOrCreateUserFrame ==
    \A sub \in {"u1", "u2", "u3"}, email \in {"", "ann@example.org", "bob@example.org"},
       name \in {PyStr(""), PyStr("Ann")} :
        LET old == {u \in users : u.id = sub}
            r == get_or_create_user(users, sub, email, name, now)
        IN  /\ Cardinality({u \in r.table : u.id = sub}) = 1
            /\ r.user \in r.table
            /\ r.user.id = sub /\ r.user.email = email /\ r.user.name = name
            /\ r.user.last_login = PyDt(now)
            /\ {u \in r.table : u.id # sub} = {u \in users : u.id # sub}
            /\ \A o \in old : r.user.role = o.role /\ r.user.created_at = o.created_at

(* C10 witness: a login updated the row of an administrator created earlier *)
C10_Witness ==
    \E u \in users :
        /\ u.role = "admin"
        /\ u.last_login # None /\ u.last_login[2] > u.created_at

-----------------------------------------------------------------------------
(* SpecJwt: create_access_token and decode_access_token on bounded inputs   *)

Absent == <<"absent">>
MkClaims(f) == [k \in {x \in DOMAIN f : f[x] # Absent} |-> f[k]]

(* The claims maps handed to create_access_token: sub, role and aud in all  *)
(* combinations, and maps holding one further registered claim or a value   *)
(* JSON cannot carry.                                                        *)
ClaimsMaps ==
    { MkClaims([sub |-> s, role |-> r, aud |-> a]) :
        s \in {Absent, PyStr("u1"), PyInt(7)},
        r \in {Absent, PyStr("admin")},
        a \in {Absent, PyStr("app")} }
    \cup
    { [sub |-> PyStr("u1"), exp |-> PyInt(0)],
      [sub |-> PyStr("u1"), iat |-> PyInt(0)],
      [sub |-> PyStr("u1"), last_login |-> PyStr("T0")],
      [sub |-> PyStr("u1"), last_login |-> PyDt(0)],
      [sub |-> PyStr("u1"), jti |-> PyInt(7)],
      [sub |-> PyStr("u1"), jti |-> PyStr("id7")],
      [sub |-> PyStr("u1"), at_hash |-> PyStr("h")],
      [sub |-> PyStr(""), email |-> PyStr("ann@example.org")] }

EnvNoAlgorithm == [x \in {"JWT_SECRET_KEY", "JWT_EXPIRE_MINUTES"} |->
                      CASE x = "JWT_SECRET_KEY" -> "k1" [] OTHER -> "2"]
EnvNoExpiry == [x \in {"JWT_SECRET_KEY", "JWT_ALGORITHM"} |->
                   CASE x = "JWT_SECRET_KEY" -> "k1" [] OTHER -> "HS256"]
EnvBadExpiry == [EnvConfigured EXCEPT !["JWT_EXPIRE_MINUTES"] = "soon"]
JwtEnvs == {EnvConfigured, EnvNoSecret, EnvEmptySecret, EnvNoAlgorithm, EnvNoExpiry,
            EnvBadExpiry}

(* A token some other deployment signed *)
ForeignToken ==
    [alg |-> "HS256", kid |-> "", key |-> "k9",
     payload |-> [sub |-> PyStr("u1"), exp |-> PyInt(JwtMaxTime + 1)]]

Bearer(token) == [scheme |-> "bearer", credentials |-> token]

InitJwt ==
    /\ now = 0
    /\ env \in JwtEnvs
    /\ j_claims \in ClaimsMaps
    /\ j_minutes \in {None, PyInt(1)}
    /\ j_created = NotRun /\ j_issued_at = 0 /\ j_decoded = NotUsed /\ j_user = NotUsed
    /\ AuthIdle /\ AdminIdle /\ DbIdle /\ RestIdle

JwtTick ==
    /\ now < JwtMaxTime
    /\ now' = now + 1
    /\ UNCHANGED <<env, oidc_states, users, gen, nreq, req, resp, consumed, token_posts>>
    /\ UNCHANGED <<jwtVars, adminVars, dbVars, restVars>>

JwtCreate ==
    /\ j_created = NotRun
    /\ j_created' = create_access_token(j_claims, j_minutes, env, now)
    /\ j_issued_at' = now
    /\ UNCHANGED <<j_claims, j_minutes, j_decoded, j_user>>
    /\ UNCHANGED <<authVars, adminVars, dbVars, restVars>>

(* The token presented: the one create_access_token returned, or a foreign one *)
Presented(own) == IF own THEN j_created.val ELSE ForeignToken

JwtDecodeToken ==
    \E own \in BOOLEAN :
        /\ own => j_created.exc = ""
        /\ j_decoded' = [res |-> decode_access_token(Presented(own), env, now),
                         own |-> own, at |-> now]
        /\ UNCHANGED <<j_claims, j_minutes, j_created, j_issued_at, j_user>>
        /\ UNCHANGED <<authVars, adminVars, dbVars, restVars>>

JwtCurrentUser ==
    \E own \in BOOLEAN :
        /\ own => j_created.exc = ""
        /\ j_user' = [res |-> get_current_user(Bearer(Presented(own)), env, now),
                      own |-> own, at |-> now]
        /\ UNCHANGED <<j_claims, j_minutes, j_created, j_issued_at, j_decoded>>
        /\ UNCHANGED <<authVars, adminVars, dbVars, restVars>>

NextJwt == JwtTick \/ JwtCreate \/ JwtDecodeToken \/ JwtCurrentUser

SpecJwt == InitJwt /\ [][NextJwt]_vars

-----------------------------------------------------------------------------
(* Properties of the application token (SpecJwt) *)

SecretConfigured == "JWT_SECRET_KEY" \in DOMAIN env /\ env["JWT_SECRET_KEY"] # ""
ExpiryOf(token) == token.payload["exp"][2]
OwnDecodedInTime ==
    j_decoded.res # NotRun /\ j_decoded.own /\ j_decoded.at <= ExpiryOf(j_created.val)
RoundTrips ==
    /\ j_decoded.res.exc = ""
    /\ DOMAIN j_decoded.res.val = DOMAIN j_claims \cup TimeClaims
    /\ \A k \in DOMAIN j_claims : j_decoded.res.val[k] = j_claims[k]
    /\ \A k \in TimeClaims : IsInt(j_decoded.res.val[k])

PlainClaims(c) ==
    /\ DOMAIN c \cap (TimeClaims \cup {"aud", "at_hash"}) = {}
    /\ \A k \in DOMAIN c : IsStr(c[k]) \/ IsInt(c[k])
    /\ \A k \in DOMAIN c \cap {"sub", "jti"} : IsStr(c[k])
TokenSettingsConfigured ==
    /\ SecretConfigured
    /\ "JWT_ALGORITHM" \in DOMAIN env /\ env["JWT_ALGORITHM"] \in HmacAlgorithms
    /\ \/ j_minutes # None
       \/ "JWT_EXPIRE_MINUTES" \in DOMAIN env /\ env["JWT_EXPIRE_MINUTES"] \in {"1", "2", "60"}

C4_UnconfiguredSecretFailsCleanly ==
    ~SecretConfigured
    => /\ j_created # NotRun => j_created.exc = "ValueError" /\ j_created.val = None
       /\ j_decoded.res # NotRun => j_decoded.res.exc = "AccessTokenError"
       /\ j_user.res # NotRun => j_user.res.exc = "HTTPException" /\ j_user.res.val = 401

-----------------------------------------------------------------------------
(* routers/settings.py and routers/storage.py *)

(* read_env_file: the KEY=VALUE lines of the file, {} when there is none *)
read_env_file(file) == IF file.exists THEN file.vars ELSE EmptyDict

(* write_env_file: the file is rewritten as KEY=VALUE lines only *)
write_env_file(env_vars) == [exists |-> TRUE, comments |-> FALSE, vars |-> env_vars]

DictDel(d, k) == [x \in (DOMAIN d) \ {k} |-> d[x]]

(* What a handler did: the status answered, the file or buckets it left,   *)
(* and how many env files it read and how many writes it made.              *)
Handled5(status, left, reads, writes) ==
    [status |-> status, left |-> left, reads |-> reads, writes |-> writes]

(* get_settings reads both files *)
get_settings(backend, frontend) == Handled5(200, None, 2, 0)

(* update_backend_setting / update_frontend_setting and                     *)
(* add_backend_setting / add_frontend_setting, on the file of their type    *)
update_setting(file, key, value) ==
    Handled5(200, write_env_file(DictSet(read_env_file(file), key, value)), 1, 1)
add_setting(file, key, value) ==
    Handled5(200, write_env_file(DictSet(read_env_file(file), key, value)), 1, 1)

(* delete_backend_setting / delete_frontend_setting: the HTTPException(404) *)
(* for an unknown key is raised inside the try block, whose                 *)
(* `except Exception` turns it into HTTPException(500).                     *)
delete_setting(file, key) ==
    IF key \in DOMAIN read_env_file(file)
    THEN Handled5(200, write_env_file(DictDel(read_env_file(file), key)), 1, 1)
    ELSE Handled5(500, file, 1, 0)

(* create_bucket: StorageService() raises ValueError when OSS_SERVICE_URL or *)
(* OSS_API_KEY is empty ("unconfigured") and AttributeError when it is not  *)
(* in the environment ("absent"); an error reply of the service is a        *)
(* ValueError.  ValueError is answered 400, anything else 500.              *)
create_bucket(bk, bucket_name, storage) ==
    CASE storage = "ok" -> Handled5(200, bk \cup {bucket_name}, 0, 1)
      [] storage = "unconfigured" -> Handled5(400, bk, 0, 0)
      [] storage = "service_error" -> Handled5(400, bk, 0, 0)
      [] OTHER -> Handled5(500, bk, 0, 0)

-----------------------------------------------------------------------------
(* SpecAdmin: requests to the endpoints guarded by get_admin_user *)

SettingsEndpoints(env_type) ==
    { m \o " /api/v1/admin/settings/" \o env_type \o "/{key}" : m \in {"PUT", "POST", "DELETE"} }
AdminEndpoints ==
    {"GET /api/v1/admin/settings", "POST /api/v1/storage/create-bucket"}
    \cup SettingsEndpoints("backend") \cup SettingsEndpoints("frontend")

AdminToken(payload, key, exp) ==
    [alg |-> "HS256", kid |-> "", key |-> key, payload |-> DictSet(payload, "exp", PyInt(exp))]

(* The Authorization headers presented *)
AdminCredentials ==
    { None,
      [scheme |-> "basic", credentials |-> AdminToken([sub |-> PyStr("u1"), role |-> PyStr("admin")], "k1", AdminMaxTime + 1)] }
    \cup
    { Bearer(AdminToken(p, "k1", AdminMaxTime + 1)) :
        p \in { [sub |-> PyStr("u1"), role |-> PyStr("admin"), email |-> PyStr("root@example.org")],
                [sub |-> PyStr("u2"), role |-> PyStr("user")],
                [sub |-> PyStr("u2")],
                [sub |-> PyStr("u2"), role |-> PyStr("")],
                [sub |-> PyStr("u2"), role |-> PyStr("Admin")],
                [sub |-> PyStr("u2"), role |-> PyInt(7)],
                [sub |-> PyStr("u2"), role |-> PyStr("user"), email |-> PyInt(7)],
                [role |-> PyStr("user")],
                [sub |-> PyStr(""), role |-> PyStr("user")] } }
    \cup
    { Bearer(AdminToken([sub |-> PyStr("u1"), role |-> PyStr("admin")], "k1", 0)),
      Bearer(AdminToken([sub |-> PyStr("u2"), role |-> PyStr("user")], "k9", AdminMaxTime + 1)) }

EnvKeys == {"DEBUG"}
EnvValues == {"0", "1"}
BucketNames == {"media"}
StorageOutcomes == {"ok", "unconfigured", "absent", "service_error", "network"}

InitAdmin ==
    /\ now = 0
    /\ env \in {EnvConfigured, EnvEmptySecret, EnvNoSecret}
    /\ a_token = None /\ a_endpoint = "" /\ a_status = 0 /\ a_reads = 0 /\ a_writes = 0
    /\ backend_env = [exists |-> TRUE, comments |-> TRUE,
                      vars |-> DictSet([k \in EnvKeys |-> "0"], "PORT", "8000")]
    /\ frontend_env = NoFile
    /\ buckets = {}
    /\ AuthIdle /\ JwtIdle /\ DbIdle /\ RestIdle

AdminTick ==
    /\ now < AdminMaxTime
    /\ now' = now + 1
    /\ UNCHANGED <<env, oidc_states, users, gen, nreq, req, resp, consumed, token_posts>>
    /\ UNCHANGED <<jwtVars, adminVars, dbVars, restVars>>

(* The part every guarded request shares: the dependency chain runs first,  *)
(* and the handler (done) runs only when get_admin_user returned a user.    *)
Guarded(credentials, endpoint, done) ==
    /\ nreq < MaxAdminRequests
    /\ nreq' = nreq + 1
    /\ a_token' = credentials
    /\ a_endpoint' = endpoint
    /\ \E admin \in {get_admin_user(get_current_user(credentials, env, now))} :
           /\ a_status' = IF admin.exc # "" THEN StatusOf(admin) ELSE done.status
           /\ a_reads' = a_reads + (IF admin.exc # "" THEN 0 ELSE done.reads)
           /\ a_writes' = a_writes + (IF admin.exc # "" THEN 0 ELSE done.writes)
           /\ CASE admin.exc = "" /\ endpoint \in SettingsEndpoints("backend") ->
                        backend_env' = done.left /\ UNCHANGED <<frontend_env, buckets>>
                [] admin.exc = "" /\ endpoint \in SettingsEndpoints("frontend") ->
                        frontend_env' = done.left /\ UNCHANGED <<backend_env, buckets>>
                [] admin.exc = "" /\ endpoint = "POST /api/v1/storage/create-bucket" ->
                        buckets' = done.left /\ UNCHANGED <<backend_env, frontend_env>>
                [] OTHER -> UNCHANGED <<backend_env, frontend_env, buckets>>
    /\ UNCHANGED <<now, env, oidc_states, users, gen, req, resp, consumed, token_posts>>
    /\ UNCHANGED <<jwtVars, dbVars, restVars>>

FileOf(env_type) == IF env_type = "backend" THEN backend_env ELSE frontend_env

GetSettings ==
    \E c \in AdminCredentials :
        Guarded(c, "GET /api/v1/admin/settings", get_settings(backend_env, frontend_env))

UpdateSetting ==
    \E c \in AdminCredentials, env_type \in {"backend", "frontend"}, key \in EnvKeys, value \in EnvValues :
        Guarded(c, "PUT /api/v1/admin/settings/" \o env_type \o "/{key}",
                update_setting(FileOf(env_type), key, value))

AddSetting ==
    \E c \in AdminCredentials, env_type \in {"backend", "frontend"}, key \in EnvKeys, value \in EnvValues :
        Guarded(c, "POST /api/v1/admin/settings/" \o env_type \o "/{key}",
                add_setting(FileOf(env_type), key, value))

DeleteSetting ==
    \E c \in AdminCredentials, env_type \in {"backend", "frontend"}, key \in EnvKeys :
        Guarded(c, "DELETE /api/v1/admin/settings/" \o env_type \o "/{key}",
                delete_setting(FileOf(env_type), key))

CreateBucket ==
    \E c \in AdminCredentials, name \in BucketNames, storage \in StorageOutcomes :
        Guarded(c, "POST /api/v1/storage/create-bucket", create_bucket(buckets, name, storage))

NextAdmin == AdminTick \/ GetSettings \/ UpdateSetting \/ AddSetting \/ DeleteSetting \/ CreateBucket

SpecAdmin == InitAdmin /\ [][NextAdmin]_vars

-----------------------------------------------------------------------------
(* Properties of the guarded endpoints (SpecAdmin) *)

AdminUntouched ==
    /\ a_reads' = a_reads /\ a_writes' = a_writes
    /\ backend_env' = backend_env /\ frontend_env' = frontend_env /\ buckets' = buckets

(* The request handled in this step presented a bearer token that decodes   *)
(* and whose role claim is not 'admin'.                                      *)
PresentsNonAdminToken ==
    /\ nreq' # nreq /\ a_endpoint' \in AdminEndpoints
    /\ a_token' # None /\ a_token'.scheme = "bearer"
    /\ decode_access_token(a_token'.credentials, env, now).exc = ""
    /\ DictGet(a_token'.credentials.payload, "role", Absent) # PyStr("admin")

StringClaims(p) ==
    /\ Truthy(DictGet(p, "sub", None))
    /\ \A k \in DOMAIN p \cap {"email", "name", "role"} : IsStr(p[k])

-----------------------------------------------------------------------------
(* core/database.py: the DatabaseManager shared by the coroutines of one    *)
(* event loop.  A coroutine keeps the loop (running) from one suspension    *)
(* point to the next: it gives the loop up only where it waits for a lock   *)
(* that is held or for the database (engine.begin, run_sync, the commit on  *)
(* leaving the transaction, engine.dispose).  Awaiting init_db or           *)
(* create_tables runs the callee in the caller's turn.                      *)

Coroutines == 1..NumCoroutines
Operations == {"init_db", "create_tables", "ensure_initialized", "close_db", "get_db"}

EntryOf(o) ==
    CASE o = "init_db" -> "id_lock"
      [] o = "create_tables" -> "ct_lock"
      [] o = "ensure_initialized" -> "ei_quick"
      [] o = "close_db" -> "cd_check"
      [] OTHER -> "gd_check"

(* Mutant: the test `self.engine is not None` of init_db never succeeds *)
EngineExists_never(e) == FALSE

(* `self.engine is not None` *)
EngineExists(e) == e # 0

EnvDatabase == [x \in {"DATABASE_URL"} |-> "postgresql://db"]
EnvEmptyDatabase == [x \in {"DATABASE_URL"} |-> ""]

CanRun(p) == running \in {0, p}
Continue(p, label) ==
    /\ pc' = [pc EXCEPT ![p] = label] /\ running' = p /\ UNCHANGED <<op, outcome, calls>>
Suspend(p, label) ==
    /\ pc' = [pc EXCEPT ![p] = label] /\ running' = 0 /\ UNCHANGED <<op, outcome, calls>>
Finish(p, out) ==
    /\ pc' = [pc EXCEPT ![p] = "idle"] /\ running' = 0
    /\ outcome' = [outcome EXCEPT ![p] = out] /\ UNCHANGED <<op, calls>>

(* function f returns to its caller: ensure_initialized goes on from        *)
(* init_db to create_tables and returns after it; get_db goes on to its     *)
(* second test of the session maker.                                        *)
ReturnFrom(p, f) ==
    IF f = op[p] THEN Finish(p, "ok")
    ELSE IF f = "init_db" THEN Continue(p, "ct_lock")
    ELSE IF op[p] = "ensure_initialized" THEN Finish(p, "ok")
    ELSE Continue(p, "gd_recheck")

(* an exception leaves every caller; get_db re-raises it as RuntimeError *)
RaiseFrom(p, exc) == Finish(p, IF op[p] = "get_db" THEN "RuntimeError" ELSE exc)

InitDatabase ==
    /\ now = 0
    /\ env \in {EnvDatabase, EnvEmptyDatabase, EmptyDict}
    /\ engine = 0 /\ async_session_maker = 0 /\ initialized = FALSE
    /\ init_lock = 0 /\ table_lock = 0
    /\ engines_created = 0 /\ makers_created = 0 /\ engines_closed = 0
    /\ create_all_runs = 0 /\ calls = 0 /\ running = 0
    /\ ct_epoch = 0 /\ tables_created = FALSE
    /\ pc = [p \in Coroutines |-> "idle"]
    /\ op = [p \in Coroutines |-> "none"]
    /\ outcome = [p \in Coroutines |-> "none"]
    /\ AuthIdle /\ JwtIdle /\ AdminIdle /\ RestIdle

(* The manager as close_db leaves it *)
ManagerReset ==
    engines_closed > 0 /\ engine = 0 /\ async_session_maker = 0 /\ ~initialized

(* A task starts a call on the manager *)
StartCall(p) ==
    /\ running = 0 /\ pc[p] = "idle" /\ calls < MaxCalls
    /\ \E o \in Operations :
           /\ op' = [op EXCEPT ![p] = o]
           /\ pc' = [pc EXCEPT ![p] = EntryOf(o)]
           /\ fresh_call' = IF o = "ensure_initialized" /\ ManagerReset
                                 /\ \A q \in Coroutines : pc[q] = "idle"
                              THEN p
                              ELSE IF fresh_call = p THEN 0 ELSE fresh_call
    /\ outcome' = [outcome EXCEPT ![p] = "running"]
    /\ calls' = calls + 1
    /\ running' = p
    /\ UNCHANGED <<engine, async_session_maker, initialized, init_lock, table_lock,
                   engines_created, makers_created, engines_closed, create_all_runs>>
    /\ UNCHANGED <<ct_epoch, tables_created>>
    /\ UNCHANGED <<authVars, jwtVars, adminVars, fanVars, exVars, payVars, lamVars, sesVars,
                   laterVars>>

(* ---- init_db ---- *)

(* async with self._init_lock: entered at once when the lock is free *)
IdLock(p) ==
    /\ CanRun(p) /\ pc[p] = "id_lock"
    /\ IF init_lock = 0
       THEN init_lock' = p /\ Continue(p, "id_check")
       ELSE init_lock' = init_lock /\ Suspend(p, "id_lock")
    /\ UNCHANGED <<engine, async_session_maker, initialized, table_lock,
                   engines_created, makers_created, engines_closed, create_all_runs>>
    /\ UNCHANGED <<ct_epoch, tables_created>>
    /\ UNCHANGED <<authVars, jwtVars, adminVars, restVars>>

(* if self.engine is not None: return -- and the lock is released on        *)
(* leaving the block either way                                             *)
IdCheck(p) ==
    /\ CanRun(p) /\ pc[p] = "id_check"
    /\ init_lock' = 0
    /\ IF EngineExists(engine) THEN ReturnFrom(p, "init_db") ELSE Continue(p, "id_url")
    /\ UNCHANGED <<engine, async_session_maker, initialized, table_lock,
                   engines_created, makers_created, engines_closed, create_all_runs>>
    /\ UNCHANGED <<ct_epoch, tables_created>>
    /\ UNCHANGED <<authVars, jwtVars, adminVars, restVars>>

(* if not settings.database_url: raise ValueError -- where reading the      *)
(* setting raises AttributeError when the environment has no DATABASE_URL   *)
IdUrl(p) ==
    /\ CanRun(p) /\ pc[p] = "id_url"
    /\ \E url \in {SettingsGetattr(env, "database_url")} :
           IF url.exc # "" THEN RaiseFrom(p, url.exc)
           ELSE IF ~Truthy(url.val) THEN RaiseFrom(p, "ValueError")
           ELSE Continue(p, "id_create")
    /\ UNCHANGED <<engine, async_session_maker, initialized, init_lock, table_lock,
                   engines_created, makers_created, engines_closed, create_all_runs>>
    /\ UNCHANGED <<ct_epoch, tables_created>>
    /\ UNCHANGED <<authVars, jwtVars, adminVars, restVars>>

(* self.engine = create_async_engine(...), which may raise *)
IdCreate(p) ==
    /\ CanRun(p) /\ pc[p] = "id_create"
    /\ \E created \in BOOLEAN :
           IF created
           THEN /\ engine' = engines_created + 1
                /\ engines_created' = engines_created + 1
                /\ Continue(p, "id_maker")
           ELSE /\ UNCHANGED <<engine, engines_created>>
                /\ RaiseFrom(p, "Exception")
    /\ UNCHANGED <<async_session_maker, initialized, init_lock, table_lock,
                   makers_created, engines_closed, create_all_runs>>
    /\ UNCHANGED <<ct_epoch, tables_created>>
    /\ UNCHANGED <<authVars, jwtVars, adminVars, restVars>>

(* self.async_session_maker = async_sessionmaker(self.engine, ...) *)
IdMaker(p) ==
    /\ CanRun(p) /\ pc[p] = "id_maker"
    /\ async_session_maker' = engine
    /\ makers_created' = makers_created + 1
    /\ ReturnFrom(p, "init_db")
    /\ UNCHANGED <<engine, initialized, init_lock, table_lock,
                   engines_created, engines_closed, create_all_runs>>
    /\ UNCHANGED <<ct_epoch, tables_created>>
    /\ UNCHANGED <<authVars, jwtVars, adminVars, restVars>>

(* ---- create_tables ---- *)

(* await self._table_creation_lock.acquire() *)
CtLock(p) ==
    /\ CanRun(p) /\ pc[p] = "ct_lock"
    /\ IF table_lock = 0
       THEN table_lock' = p /\ Continue(p, "ct_check")
       ELSE table_lock' = table_lock /\ Suspend(p, "ct_lock")
    /\ UNCHANGED <<engine, async_session_maker, initialized, init_lock,
                   engines_created, makers_created, engines_closed, create_all_runs>>
    /\ UNCHANGED <<ct_epoch, tables_created>>
    /\ UNCHANGED <<authVars, jwtVars, adminVars, restVars>>

(* Mutant: the test `if self._initialized` never succeeds *)
AlreadyInitialized_never(flag) == FALSE

(* `if self._initialized` *)
AlreadyInitialized(flag) == flag

(* the two early exits, then engine.begin() waits for a connection; the     *)
(* finally clause releases the lock on the exits                            *)
CtCheck(p) ==
    /\ CanRun(p) /\ pc[p] = "ct_check"
    /\ IF AlreadyInitialized(initialized)
       THEN /\ table_lock' = 0 /\ ReturnFrom(p, "create_tables")
            /\ tables_created' = TRUE /\ ct_epoch' = ct_epoch
       ELSE IF engine = 0
       THEN /\ table_lock' = 0 /\ RaiseFrom(p, "RuntimeError")
            /\ UNCHANGED <<ct_epoch, tables_created>>
       ELSE /\ table_lock' = table_lock /\ Suspend(p, "ct_begin")
            /\ ct_epoch' = engines_closed /\ tables_created' = tables_created
    /\ UNCHANGED <<engine, async_session_maker, initialized, init_lock,
                   engines_created, makers_created, engines_closed, create_all_runs>>
    /\ UNCHANGED <<authVars, jwtVars, adminVars, restVars>>

(* the connection is there and conn.run_sync(Base.metadata.create_all)      *)
(* starts, or connecting failed                                             *)
CtBegin(p) ==
    /\ CanRun(p) /\ pc[p] = "ct_begin"
    /\ \E connected \in BOOLEAN :
           IF connected THEN table_lock' = table_lock /\ Suspend(p, "ct_create_all")
           ELSE table_lock' = 0 /\ RaiseFrom(p, "Exception")
    /\ UNCHANGED <<engine, async_session_maker, initialized, init_lock,
                   engines_created, makers_created, engines_closed, create_all_runs>>
    /\ UNCHANGED <<ct_epoch, tables_created>>
    /\ UNCHANGED <<authVars, jwtVars, adminVars, restVars>>

(* create_all has run: on success _initialized is set inside the            *)
(* transaction block, whose exit then commits; an error leaves the block,   *)
(* whose exit rolls back                                                    *)
CtCreateAll(p) ==
    /\ CanRun(p) /\ pc[p] = "ct_create_all"
    /\ create_all_runs' = create_all_runs + 1
    /\ \E result \in {"created", "duplicate", "error"} :
           CASE result = "created" -> initialized' = TRUE /\ Suspend(p, "ct_commit")
             [] result = "duplicate" ->
                    initialized' = initialized /\ Suspend(p, "ct_rollback_duplicate")
             [] OTHER -> initialized' = initialized /\ Suspend(p, "ct_rollback_error")
    /\ UNCHANGED <<engine, async_session_maker, init_lock, table_lock,
                   engines_created, makers_created, engines_closed>>
    /\ UNCHANGED <<ct_epoch, tables_created>>
    /\ UNCHANGED <<authVars, jwtVars, adminVars, restVars>>

(* after the rollback: UniqueViolationError and DuplicateTableError set     *)
(* _initialized and are swallowed, any other error is re-raised             *)
CtRollback(p) ==
    /\ CanRun(p) /\ pc[p] \in {"ct_rollback_duplicate", "ct_rollback_error"}
    /\ table_lock' = 0
    /\ IF pc[p] = "ct_rollback_duplicate"
       THEN /\ initialized' = TRUE /\ ReturnFrom(p, "create_tables")
            /\ tables_created' = (tables_created \/ ct_epoch = engines_closed)
       ELSE /\ initialized' = initialized /\ RaiseFrom(p, "Exception")
            /\ tables_created' = tables_created
    /\ UNCHANGED <<engine, async_session_maker, init_lock, ct_epoch,
                   engines_created, makers_created, engines_closed, create_all_runs>>
    /\ UNCHANGED <<authVars, jwtVars, adminVars, restVars>>

(* leaving `async with self.engine.begin()` commits, which may fail *)
CtCommit(p) ==
    /\ CanRun(p) /\ pc[p] = "ct_commit"
    /\ table_lock' = 0
    /\ \E committed \in BOOLEAN :
           IF committed
           THEN /\ ReturnFrom(p, "create_tables")
                /\ tables_created' = (tables_created \/ ct_epoch = engines_closed)
           ELSE RaiseFrom(p, "Exception") /\ tables_created' = tables_created
    /\ UNCHANGED <<engine, async_session_maker, initialized, init_lock, ct_epoch,
                   engines_created, makers_created, engines_closed, create_all_runs>>
    /\ UNCHANGED <<authVars, jwtVars, adminVars, restVars>>

(* ---- close_db ---- *)

(* if not self.engine: return; else await self.engine.dispose() *)
CdCheck(p) ==
    /\ CanRun(p) /\ pc[p] = "cd_check"
    /\ IF engine = 0 THEN ReturnFrom(p, "close_db") ELSE Suspend(p, "cd_dispose")
    /\ UNCHANGED <<engine, async_session_maker, initialized, init_lock, table_lock,
                   engines_created, makers_created, engines_closed, create_all_runs>>
    /\ UNCHANGED <<ct_epoch, tables_created>>
    /\ UNCHANGED <<authVars, jwtVars, adminVars, restVars>>

(* `except Exception as e:` with a body that does not raise *)
ExceptException(exc) == exc = "Exception"

(* dispose has ended, well or with an error: the except clause swallows the *)
(* error and the finally clause resets the manager                          *)
CdDispose(p) ==
    /\ CanRun(p) /\ pc[p] = "cd_dispose"
    /\ engine' = 0 /\ async_session_maker' = 0 /\ initialized' = FALSE
    /\ engines_closed' = engines_closed + 1
    /\ \E exc \in {"", "Exception"} :
           IF exc = "" \/ ExceptException(exc) THEN ReturnFrom(p, "close_db")
           ELSE RaiseFrom(p, exc)
    /\ tables_created' = FALSE
    /\ UNCHANGED <<init_lock, table_lock, engines_created, makers_created, create_all_runs,
                   ct_epoch>>
    /\ UNCHANGED <<authVars, jwtVars, adminVars, restVars>>

(* ---- ensure_initialized ---- *)

(* if self.async_session_maker is not None: return *)
EiQuick(p) ==
    /\ CanRun(p) /\ pc[p] = "ei_quick"
    /\ IF async_session_maker # 0 THEN ReturnFrom(p, "ensure_initialized")
       ELSE Continue(p, "ei_lock")
    /\ UNCHANGED <<engine, async_session_maker, initialized, init_lock, table_lock,
                   engines_created, makers_created, engines_closed, create_all_runs>>
    /\ UNCHANGED <<ct_epoch, tables_created>>
    /\ UNCHANGED <<authVars, jwtVars, adminVars, restVars>>

EiLock(p) ==
    /\ CanRun(p) /\ pc[p] = "ei_lock"
    /\ IF init_lock = 0
       THEN init_lock' = p /\ Continue(p, "ei_recheck")
       ELSE init_lock' = init_lock /\ Suspend(p, "ei_lock")
    /\ UNCHANGED <<engine, async_session_maker, initialized, table_lock,
                   engines_created, makers_created, engines_closed, create_all_runs>>
    /\ UNCHANGED <<ct_epoch, tables_created>>
    /\ UNCHANGED <<authVars, jwtVars, adminVars, restVars>>

(* the second test, under the lock; the lock is released before init_db is  *)
(* called                                                                   *)
EiRecheck(p) ==
    /\ CanRun(p) /\ pc[p] = "ei_recheck"
    /\ init_lock' = 0
    /\ IF async_session_maker # 0 THEN ReturnFrom(p, "ensure_initialized")
       ELSE Continue(p, "id_lock")
    /\ UNCHANGED <<engine, async_session_maker, initialized, table_lock,
                   engines_created, makers_created, engines_closed, create_all_runs>>
    /\ UNCHANGED <<ct_epoch, tables_created>>
    /\ UNCHANGED <<authVars, jwtVars, adminVars, restVars>>

(* ---- get_db ---- *)

(* if not db_manager.async_session_maker: await ensure_initialized() *)
GdCheck(p) ==
    /\ CanRun(p) /\ pc[p] = "gd_check"
    /\ IF async_session_maker = 0 THEN Continue(p, "ei_quick") ELSE Continue(p, "gd_session")
    /\ UNCHANGED <<engine, async_session_maker, initialized, init_lock, table_lock,
                   engines_created, makers_created, engines_closed, create_all_runs>>
    /\ UNCHANGED <<ct_epoch, tables_created>>
    /\ UNCHANGED <<authVars, jwtVars, adminVars, restVars>>

(* if not db_manager.async_session_maker: raise RuntimeError *)
GdRecheck(p) ==
    /\ CanRun(p) /\ pc[p] = "gd_recheck"
    /\ IF async_session_maker = 0 THEN RaiseFrom(p, "RuntimeError")
       ELSE Continue(p, "gd_session")
    /\ UNCHANGED <<engine, async_session_maker, initialized, init_lock, table_lock,
                   engines_created, makers_created, engines_closed, create_all_runs>>
    /\ UNCHANGED <<ct_epoch, tables_created>>
    /\ UNCHANGED <<authVars, jwtVars, adminVars, restVars>>

(* async with db_manager.async_session_maker() as session: yield session *)
GdSession(p) ==
    /\ CanRun(p) /\ pc[p] = "gd_session"
    /\ Finish(p, "session")
    /\ UNCHANGED <<engine, async_session_maker, initialized, init_lock, table_lock,
                   engines_created, makers_created, engines_closed, create_all_runs>>
    /\ UNCHANGED <<ct_epoch, tables_created>>
    /\ UNCHANGED <<authVars, jwtVars, adminVars, restVars>>

NextDb ==
    \E p \in Coroutines :
        \/ StartCall(p)
        \/ IdLock(p) \/ IdCheck(p) \/ IdUrl(p) \/ IdCreate(p) \/ IdMaker(p)
        \/ CtLock(p) \/ CtCheck(p) \/ CtBegin(p) \/ CtCreateAll(p) \/ CtRollback(p) \/ CtCommit(p)
        \/ CdCheck(p) \/ CdDispose(p)
        \/ EiQuick(p) \/ EiLock(p) \/ EiRecheck(p)
        \/ GdCheck(p) \/ GdRecheck(p) \/ GdSession(p)

SpecDb == InitDatabase /\ [][NextDb]_vars

-----------------------------------------------------------------------------
(* Properties of the DatabaseManager (SpecDb) *)

C11_TableCreationIdempotent ==
    [][/\ create_all_runs' # create_all_runs => ~tables_created
       /\ \A p \in Coroutines :
            (pc[p] = "ct_rollback_duplicate" /\ pc'[p] # pc[p])
            => (initialized' /\ outcome'[p] \in {"running", "ok"})]_vars

(* Two create_tables calls have returned, one of which waited for the lock   *)
(* while the other created the tables, and create_all ran once.              *)
C11_Witness ==
    \E p, q \in Coroutines :
        /\ p # q
        /\ op[p] = "create_tables" /\ outcome[p] = "ok"
        /\ op[q] = "ensure_initialized" /\ outcome[q] = "ok"
        /\ create_all_runs = 1 /\ tables_created /\ engines_closed = 0

(* ensure_initialized returns normally to its caller p: to the task that    *)
(* called it, or to get_db, which goes on to its second test                *)
EnsureInitializedReturns(p) ==
    \/ op[p] = "ensure_initialized" /\ outcome[p] = "running" /\ outcome'[p] = "ok"
    \/ op[p] = "get_db" /\ pc[p] # "gd_recheck" /\ pc'[p] = "gd_recheck"
ObtainsSession(p) == outcome[p] = "running" /\ outcome'[p] = "session"
(* The lazy initialisation of another request is in progress: it is inside  *)
(* create_tables, which ensure_initialized called for it                    *)
LazyInitializationInProgress(p) ==
    \E q \in Coroutines \ {p} :
        /\ op[q] \in {"ensure_initialized", "get_db"}
        /\ pc[q] \in {"ct_begin", "ct_create_all", "ct_commit"}

(* C21: whenever ensure_initialized, and therefore get_db, returns normally *)
(* to a caller, table creation has completed (_initialized is True), also   *)
(* for a request arriving while the lazy initialisation of another is in    *)
(* progress; no request obtains a session before the tables exist.  Stated  *)
(* here for that case, a request served while another one's lazy            *)
(* initialisation is in progress, which the claim includes.                 *)
C21_InitializedOnReturn ==
    [][ \A p \in Coroutines :
          LazyInitializationInProgress(p) =>
            /\ EnsureInitializedReturns(p) => initialized'
            /\ ObtainsSession(p) => initialized' ]_vars

CallEnds(p, o) == op[p] = o /\ outcome[p] = "running" /\ outcome'[p] # "running"

(* What an ensure_initialized call does that started on the manager as      *)
(* close_db left it: it finds no engine and no session maker, creates an    *)
(* engine that did not exist before, and returns only after it has run      *)
(* create_all itself                                                        *)
InitializesAfresh(p) ==
    (fresh_call = p /\ op[p] = "ensure_initialized") =>
        /\ (pc[p] \in {"ei_quick", "ei_lock", "ei_recheck", "id_lock", "id_check",
                       "id_url", "id_create"}) =>
              /\ engine = 0 /\ async_session_maker = 0
              /\ outcome'[p] # "ok"
        /\ (pc[p] = "id_create" /\ pc'[p] = "id_maker") =>
              (engine' > engines_created /\ engines_created' = engine')
        /\ (pc[p] = "ct_check") => (~initialized /\ pc'[p] = "ct_begin")
        /\ (CallEnds(p, "ensure_initialized") /\ outcome'[p] = "ok") =>
              (pc[p] \in {"ct_commit", "ct_rollback_duplicate"})

(* C22: close_db always leaves engine = None, async_session_maker = None    *)
(* and _initialized = False, also when engine.dispose() raises, and does    *)
(* not propagate the dispose error; with the engine already None it changes *)
(* nothing.  An ensure_initialized called after close_db then creates a     *)
(* fresh engine and runs table creation again.                              *)
C22_CloseDbResets ==
    [][ \A p \in Coroutines :
          /\ CallEnds(p, "close_db") =>
                /\ outcome'[p] = "ok"
                /\ engine' = 0 /\ async_session_maker' = 0 /\ ~initialized'
                /\ (pc[p] = "cd_check") =>
                      UNCHANGED <<engine, async_session_maker, initialized, engines_closed>>
          /\ InitializesAfresh(p) ]_vars

(* What holds of C22: a close_db that finds an engine resets all three and  *)
(* ends normally whatever dispose did; one that finds none changes nothing, *)
(* _initialized included.                                                   *)
C22_CloseDbResetsWhenEngineSet ==
    [][ \A p \in Coroutines :
          /\ CallEnds(p, "close_db") =>
                /\ outcome'[p] = "ok"
                /\ engine' = 0 /\ async_session_maker' = 0
                /\ (pc[p] = "cd_dispose") => ~initialized'
                /\ (pc[p] = "cd_check") =>
                      UNCHANGED <<engine, async_session_maker, initialized, engines_closed>>
          /\ InitializesAfresh(p) ]_vars

(* After a lazy initialisation and a close_db, a further ensure_initialized *)
(* has returned: a second engine exists and create_all has run a second     *)
(* time                                                                     *)
C22_Witness ==
    \E p \in Coroutines :
        /\ fresh_call = p /\ op[p] = "ensure_initialized" /\ outcome[p] = "ok"
        /\ engines_closed = 1 /\ engines_created = 2 /\ create_all_runs = 2
        /\ engine = 2 /\ async_session_maker = 2 /\ initialized

InCreateTables ==
    {"ct_lock", "ct_check", "ct_begin", "ct_create_all", "ct_rollback_duplicate",
     "ct_rollback_error", "ct_commit"}
LeavesCreateTables(p) == pc[p] \in InCreateTables /\ pc'[p] \notin InCreateTables
RaisesFromCreateTables(p) == LeavesCreateTables(p) /\ pc'[p] = "idle" /\ outcome'[p] # "ok"

(* The lock is released on every exit, and is held only by a call that is   *)
(* inside create_tables past the acquire                                    *)
LockReleasedOnExit(p) ==
    /\ LeavesCreateTables(p) => (table_lock' # p /\ (table_lock = p => table_lock' = 0))
    /\ table_lock = p => pc[p] \in InCreateTables \ {"ct_lock"}
    /\ (pc[p] = "ct_check" /\ ~initialized /\ engine = 0) =>
          /\ RaisesFromCreateTables(p) /\ outcome'[p] = "RuntimeError"
          /\ ~initialized'

(* C23: create_tables releases the table-creation lock on every exit path,  *)
(* so that a call that failed or returned early never blocks a later one;   *)
(* with the engine None it raises RuntimeError and leaves _initialized      *)
(* False; when creation fails with an error other than duplicate-table or   *)
(* unique-violation it re-raises and leaves _initialized False.             *)
C23_LockReleasedFlagKept ==
    [][ \A p \in Coroutines :
          /\ LockReleasedOnExit(p)
          /\ RaisesFromCreateTables(p) => ~initialized' ]_vars

(* What holds of C23: the lock and the RuntimeError parts, and _initialized *)
(* False after every error raised before create_all has succeeded.          *)
C23_FlagKeptBeforeCommit ==
    [][ \A p \in Coroutines :
          /\ LockReleasedOnExit(p)
          /\ (RaisesFromCreateTables(p) /\ pc[p] # "ct_commit") => ~initialized' ]_vars

(* C30: in every reachable state of the DatabaseManager, under any          *)
(* interleaving of init_db, create_tables, ensure_initialized and close_db, *)
(* async_session_maker is not None only if engine is not None, and          *)
(* _initialized is True only if engine is not None.                         *)
C30_ManagerConsistent ==
    /\ async_session_maker # 0 => engine # 0
    /\ initialized => engine # 0

(* What holds of C30: the session maker is there only with the engine it    *)
(* was made from, and _initialized is True without an engine only after a   *)
(* close_db has reset the manager.                                          *)
C30_SessionMakerNeedsEngine ==
    /\ async_session_maker # 0 => async_session_maker = engine
    /\ (initialized /\ engine = 0) => engines_closed > 0

-----------------------------------------------------------------------------
(* SpecFan: the two fan-outs over asyncio.gather, each bounded by an         *)
(* asyncio.Semaphore: initialize_mock_data (one task per mock-data file) and *)
(* check_and_repair_existing_tables (one task per existing model table).     *)
(* Tasks are the numbers 1..f_n, in the order gather creates them.           *)

MaxFiles == 6
MaxTables == 11
MAX_CONCURRENT_LOADS == 5
REPAIR_CONCURRENCY == 10

FanKinds == {"load", "repair"}
MaxItems(kind) == IF kind = "load" THEN MaxFiles ELSE MaxTables
SemaphoreLimit(kind) == IF kind = "load" THEN MAX_CONCURRENT_LOADS ELSE REPAIR_CONCURRENCY

(* asyncio.Semaphore.locked, as `async with semaphore` consults it *)
SemaphoreLocked_never(value, waiters) == FALSE
SemaphoreLocked(value, waiters) == value = 0 \/ Len(waiters) > 0

(* asyncio.Semaphore._wake_up_next: the first queued future that is not yet *)
(* done gets its result, and the permit is taken on its behalf.  A record   *)
(* [value, woken]; woken = 0 when nobody was waiting.                        *)
WakeUpNext(value, waiters, tpc) ==
    LET pending == SelectSeq(waiters, LAMBDA t : tpc[t] = "waiting")
    IN IF pending = <<>> THEN [value |-> value, woken |-> 0]
       ELSE [value |-> value - 1, woken |-> Head(pending)]

InitFan ==
    /\ f_kind \in FanKinds
    /\ f_n \in 0..MaxItems(f_kind)
    /\ f_engine \in (IF f_kind = "load" THEN BOOLEAN ELSE {TRUE})
    /\ f_state = "entered"
    /\ f_pc = [t \in 1..f_n |-> "none"]
    /\ sem_value = 0 /\ sem_waiters = <<>>
    /\ now = 0 /\ env = EmptyDict
    /\ AuthIdle /\ JwtIdle /\ AdminIdle /\ DbIdle /\ ExIdle /\ PayIdle /\ LamIdle
    /\ SesIdle /\ LateIdle

(* The coroutine up to its gather: the early returns, the semaphore, one    *)
(* task per item.                                                            *)
FanOut ==
    /\ f_state = "entered"
    /\ IF ~f_engine \/ f_n = 0
       THEN /\ f_state' = "skipped"
            /\ UNCHANGED <<f_pc, sem_value>>
       ELSE /\ f_state' = "gathering"
            /\ sem_value' = SemaphoreLimit(f_kind)
            /\ f_pc' = [t \in 1..f_n |-> "created"]
    /\ UNCHANGED <<f_kind, f_n, f_engine, sem_waiters, fanFrame>>

(* The first step of a task, run in creation order: `async with semaphore`  *)
(* takes a permit and enters the work, or queues a future and suspends.      *)
TaskStart(t) ==
    /\ f_state = "gathering" /\ f_pc[t] = "created"
    /\ \A u \in 1..(t - 1) : f_pc[u] # "created"
    /\ IF ~SemaphoreLocked(sem_value, sem_waiters)
       THEN /\ sem_value' = sem_value - 1
            /\ f_pc' = [f_pc EXCEPT ![t] = "working"]
            /\ UNCHANGED sem_waiters
       ELSE /\ sem_waiters' = Append(sem_waiters, t)
            /\ f_pc' = [f_pc EXCEPT ![t] = "waiting"]
            /\ UNCHANGED sem_value
    /\ UNCHANGED <<f_kind, f_n, f_engine, f_state, fanFrame>>

(* The work of a task ends, by a return or by an exception (which load_file *)
(* catches and gather(return_exceptions=True) collects); leaving the        *)
(* `async with` either way releases the permit and wakes the next waiter.   *)
TaskFinish(t) ==
    /\ f_state = "gathering" /\ f_pc[t] = "working"
    /\ \E w \in {WakeUpNext(sem_value + 1, sem_waiters, f_pc)} :
         /\ sem_value' = w.value
         /\ f_pc' = [u \in 1..f_n |->
                       IF u = t THEN "done"
                       ELSE IF u = w.woken THEN "woken" ELSE f_pc[u]]
    /\ UNCHANGED <<f_kind, f_n, f_engine, f_state, sem_waiters, fanFrame>>

(* A woken waiter resumes in Semaphore.acquire: it removes its future, hands *)
(* a spare permit on, and enters the work.                                   *)
TaskResume(t) ==
    /\ f_state = "gathering" /\ f_pc[t] = "woken"
    /\ \E left \in {SelectSeq(sem_waiters, LAMBDA u : u # t)} :
         /\ sem_waiters' = left
         /\ \E w \in {IF sem_value > 0 THEN WakeUpNext(sem_value, left, f_pc)
                      ELSE [value |-> sem_value, woken |-> 0]} :
              /\ sem_value' = w.value
              /\ f_pc' = [u \in 1..f_n |->
                            IF u = t THEN "working"
                            ELSE IF u = w.woken THEN "woken" ELSE f_pc[u]]
    /\ UNCHANGED <<f_kind, f_n, f_engine, f_state, fanFrame>>

(* gather returns when every task is done *)
FanReturn ==
    /\ f_state = "gathering"
    /\ \A t \in 1..f_n : f_pc[t] = "done"
    /\ f_state' = "returned"
    /\ UNCHANGED <<f_kind, f_n, f_engine, f_pc, sem_value, sem_waiters,
                   fanFrame>>

NextFan ==
    \/ FanOut
    \/ \E t \in 1..f_n : TaskStart(t)
    \/ \E t \in 1..f_n : TaskFinish(t)
    \/ \E t \in 1..f_n : TaskResume(t)
    \/ FanReturn

SpecFan == InitFan /\ [][NextFan]_vars

(* The event loop runs every ready task, and every database operation a     *)
(* task awaits completes or fails.                                           *)
SpecFanFair == SpecFan /\ WF_vars(NextFan)

InProgress == {t \in 1..f_n : f_pc[t] = "working"}

(* C12: never more than five _load_table_from_file calls and never more     *)
(* than ten _repair_table_structure calls are in progress at once, and once *)
(* the tasks are created every file and table is eventually processed.      *)
C12_BoundedFanOut ==
    /\ [](f_kind = "load" => Cardinality(InProgress) <= 5)
    /\ [](f_kind = "repair" => Cardinality(InProgress) <= 10)
    /\ (f_state = "gathering") ~> (f_state = "returned"
                                    /\ \A t \in 1..f_n : f_pc[t] = "done")

(* More items than permits: the semaphore is full, a task waits, and is     *)
(* then let in by a release.                                                 *)
C12_Witness ==
    /\ f_n > SemaphoreLimit(f_kind)
    /\ Cardinality(InProgress) = SemaphoreLimit(f_kind)
    /\ \E t \in 1..f_n : f_pc[t] = "done"
    /\ \E t \in InProgress : t > SemaphoreLimit(f_kind)

-----------------------------------------------------------------------------
(* SpecExchange: POST /api/v1/auth/token/exchange, handled one at a time.   *)
(* settings.oidc_issuer_url is configured, as everywhere in this model.     *)

MaxExchanges == 2

(* str(x) for the values a verified payload carries as user_id *)
PyStrOf(v) == IF IsInt(v) THEN ToString(v[2]) ELSE v[2]

(* exchange_platform_token.  verify is what the POST to                     *)
(* {issuer}/platform/tokens/verify did: whether it answered at all, its     *)
(* status, and its body ("invalid": not JSON, "list": JSON but no object,   *)
(* "dict": the object in verify.dict, whose data is itself an object).      *)
(* The User it builds is never added to the session.                         *)
exchange_platform_token(verify, e, t) ==
    IF ~verify.net_ok
    THEN HTTPException(502, "Unable to verify platform token")
    ELSE IF verify.json = "invalid"
    THEN HTTPException(502, "Invalid response from platform token verification service")
    ELSE IF verify.json # "dict"
    THEN HTTPException(502, "Unexpected response from platform token verification service")
    ELSE IF verify.status # 200 \/ ~Truthy(DictGet(verify.dict, "success", None))
    THEN LET message == DictGet(verify.dict, "message", PyStr(""))
         IN  HTTPException(verify.status,
                           IF Truthy(message) THEN message[2]
                           ELSE "Platform token verification failed")
    ELSE
    LET payload_data == IF "data" \in DOMAIN verify.dict THEN verify.dict["data"]
                        ELSE EmptyDict
        raw_user_id == DictGet(payload_data, "user_id", None)
    IN  IF ~Truthy(raw_user_id)
        THEN HTTPException(401, "Platform token payload missing user_id")
        ELSE
        LET platform_user_id == PyStrOf(raw_user_id)
            admin_user_id == SettingsGetattr(e, "admin_user_id")
        IN  IF admin_user_id.exc # "" THEN admin_user_id
            ELSE IF platform_user_id # admin_user_id.val[2]
            THEN HTTPException(403, "Only admin user can exchange a platform token")
            ELSE
            LET conf == SettingsGetattr(e, "admin_user_email")
                given == DictGet(payload_data, "email", PyStr(""))
                admin_email == IF Truthy(given) THEN given
                               ELSE IF conf.exc = "" THEN conf.val ELSE PyStr("")
                name == DictGet(payload_data, "name", None)
                username == DictGet(payload_data, "username", None)
                admin_name == IF Truthy(name) THEN name
                              ELSE IF Truthy(username) THEN username
                              ELSE PyStr(derive_name_from_email(admin_email[2]))
                user == User(platform_user_id, admin_email[2], admin_name, "admin",
                             None, None)
                issued == issue_app_token(user, e, t)
            IN  IF issued.exc # "" THEN issued
                ELSE Ok([token |-> issued.val.token])

(* What the verification service can do *)
VerifiedData ==
    { MkClaims([user_id |-> u, email |-> m, name |-> n]) :
        u \in {Absent, PyStr(""), PyStr("u1"), PyStr("u2"), PyInt(7)},
        m \in {Absent, PyStr("ann@example.org")},
        n \in {Absent, PyStr("Ann")} }
VerifyVerdicts ==
    { MkClaims([success |-> s, message |-> m]) :
        s \in {Absent, PyBool(TRUE), PyBool(FALSE)},
        m \in {Absent, PyStr("token revoked")} }
VerifyBodies ==
    VerifyVerdicts \cup { DictSet(v, "data", d) : v \in VerifyVerdicts, d \in VerifiedData }
VerifyOutcomes ==
    { [net_ok |-> FALSE, status |-> 0, json |-> "invalid", dict |-> EmptyDict] }
    \cup { [net_ok |-> TRUE, status |-> st, json |-> j, dict |-> EmptyDict] :
             st \in {200, 401, 503}, j \in {"invalid", "list"} }
    \cup { [net_ok |-> TRUE, status |-> st, json |-> "dict", dict |-> b] :
             st \in {200, 401, 503}, b \in VerifyBodies }

InitExchange ==
    /\ now = 0
    /\ env \in {EnvConfigured, EnvNoSecret, EnvEmptySecret}
    /\ users \in {{}, initialize_admin_user({}, env, 0)}
    /\ oidc_states = {} /\ gen = 0 /\ nreq = 0
    /\ req = NoRequest /\ resp = NoResponse /\ consumed = <<>> /\ token_posts = {}
    /\ JwtIdle /\ AdminIdle /\ DbIdle /\ FanIdle /\ ExIdle /\ PayIdle /\ LamIdle
    /\ SesIdle /\ LateIdle

ExchangePlatformToken ==
    /\ x_n < MaxExchanges
    /\ \E verify \in VerifyOutcomes :
         /\ x_verify' = verify
         /\ x_resp' = exchange_platform_token(verify, env, now)
    /\ x_n' = x_n + 1
    /\ users' = users
    /\ UNCHANGED <<now, env, oidc_states, gen, nreq, req, resp, consumed, token_posts>>
    /\ UNCHANGED exFrame

NextExchange == ExchangePlatformToken

SpecExchange == InitExchange /\ [][NextExchange]_vars

TokenIssued == x_resp.exc = ""

(* The verification succeeded for the configured admin user *)
VerifiedAsAdmin ==
    /\ x_verify.net_ok /\ x_verify.json = "dict" /\ x_verify.status = 200
    /\ DictGet(x_verify.dict, "success", None) = PyBool(TRUE)
    /\ "data" \in DOMAIN x_verify.dict
    /\ "user_id" \in DOMAIN x_verify.dict["data"]
    /\ "ADMIN_USER_ID" \in DOMAIN env
    /\ PyStrOf(x_verify.dict["data"]["user_id"]) = env["ADMIN_USER_ID"]

(* The status the claim gives for each way the exchange is refused *)
StatedRefusal ==
    \/ ~x_verify.net_ok /\ StatusOf(x_resp) = 502
    \/ x_verify.net_ok /\ x_verify.json # "dict" /\ StatusOf(x_resp) = 502
    \/ /\ x_verify.net_ok /\ x_verify.json = "dict"
       /\ StatusOf(x_resp) >= 400
       /\ \/ StatusOf(x_resp) = x_verify.status
          \/ x_verify.status = 200 /\ StatusOf(x_resp) \in {401, 403, 500}

(* C13: a token is issued only to the verified admin user and carries its   *)
(* id as sub and role admin; every other request is answered with an HTTP   *)
(* error status; the users table is never written.                           *)
C13_ExchangeRestrictedToAdmin ==
    [][x_n' # x_n =>
        /\ users' = users
        /\ TokenIssued' =>
             /\ VerifiedAsAdmin'
             /\ x_resp'.val.token.payload["sub"] = PyStr(env["ADMIN_USER_ID"])
             /\ x_resp'.val.token.payload["role"] = PyStr("admin")
        /\ ~TokenIssued' => StatedRefusal']_vars

(* The part that holds: the token goes to the verified admin only, and the  *)
(* users table is not written.                                               *)
C13_TokenOnlyForAdmin ==
    [][x_n' # x_n =>
        /\ users' = users
        /\ TokenIssued' =>
             /\ VerifiedAsAdmin'
             /\ x_resp'.val.token.payload["sub"] = PyStr(env["ADMIN_USER_ID"])
             /\ x_resp'.val.token.payload["role"] = PyStr("admin")]_vars

-----------------------------------------------------------------------------
(* SpecPay: services/payment.py.  An exception is its class and, for a      *)
(* Stripe error, its http_status (0 is None).                                *)

MaxPayCalls == 2

(* stripe.error: every class derives from StripeError; CardError and        *)
(* InvalidRequestError do so through StripeErrorWithParamCode.               *)
StripeErrorClasses ==
    {"StripeError", "APIError", "APIConnectionError", "CardError", "IdempotencyError",
     "InvalidRequestError", "AuthenticationError", "PermissionError", "RateLimitError",
     "SignatureVerificationError"}
IsInstance(error, cls) ==
    \/ error.class = cls
    \/ cls = "StripeError" /\ error.class \in StripeErrorClasses
    \/ cls = "StripeErrorWithParamCode" /\ error.class \in {"CardError", "InvalidRequestError"}
    \/ cls = "Exception"

Classified(error_type, is_retryable, fixable) ==
    [error_type |-> error_type, is_retryable |-> is_retryable, fixable |-> fixable]

(* Mutant: every API error is retryable, whatever its status *)
classify_stripe_error_any_status(error) ==
    IF IsInstance(error, "APIError") THEN Classified("api_error", TRUE, FALSE)
    ELSE IF IsInstance(error, "AuthenticationError")
    THEN Classified("authentication", FALSE, TRUE)
    ELSE Classified("api_error", FALSE, FALSE)

(* _classify_stripe_error *)
classify_stripe_error(error) ==
    IF IsInstance(error, "AuthenticationError")
    THEN Classified("authentication", FALSE, TRUE)
    ELSE IF IsInstance(error, "APIConnectionError")
    THEN Classified("network", TRUE, FALSE)
    ELSE IF IsInstance(error, "APIError")
    THEN Classified("api_error",
                    error.http_status # 0 /\ 500 <= error.http_status
                        /\ error.http_status < 600,
                    FALSE)
    ELSE IF IsInstance(error, "InvalidRequestError")
    THEN Classified("validation", FALSE, TRUE)
    ELSE IF IsInstance(error, "CardError")
    THEN Classified("card_error", FALSE, FALSE)
    ELSE IF IsInstance(error, "RateLimitError")
    THEN Classified("rate_limit", TRUE, FALSE)
    ELSE IF IsInstance(error, "IdempotencyError")
    THEN Classified("idempotency", FALSE, TRUE)
    ELSE Classified("api_error", FALSE, FALSE)

(* CheckoutError(..., original_error=e) *)
CheckoutError(c, original) ==
    [exc |-> "CheckoutError", error_type |-> c.error_type, is_retryable |-> c.is_retryable,
     fixable |-> c.fixable, original |-> original]
Unexpected(original) == CheckoutError(Classified("unexpected", FALSE, FALSE), original)
NoError == [class |-> "", http_status |-> 0]

(* What a call to Stripe does: it returns (NoError) or raises *)
StripeOutcomes ==
    {NoError}
    \cup [class : StripeErrorClasses, http_status : {0, 400, 499, 500, 599, 600}]
    \cup {[class |-> "RuntimeError", http_status |-> 0]}

(* initialize_stripe: the exception that leaves it (NoError: it returns)    *)
(* and stripe.api_key afterwards.  account is what Account.retrieve_async   *)
(* does.                                                                     *)
initialize_stripe(e, account) ==
    LET stripe_key == SettingsGetattr(e, "stripe_secret_key")
    IN  IF stripe_key.exc # ""
        THEN [raised |-> [class |-> stripe_key.exc, http_status |-> 0], api_key |-> FALSE]
        ELSE IF ~Truthy(stripe_key.val)
        THEN [raised |-> NoError, api_key |-> FALSE]
        ELSE IF account = NoError
        THEN [raised |-> NoError, api_key |-> TRUE]
        ELSE IF IsInstance(account, "AuthenticationError")
        THEN [raised |-> CheckoutError(classify_stripe_error(account), account),
              api_key |-> FALSE]
        ELSE IF IsInstance(account, "StripeError")
        THEN [raised |-> CheckoutError(classify_stripe_error(account), account),
              api_key |-> TRUE]
        ELSE [raised |-> Unexpected(account), api_key |-> TRUE]

(* create_checkout_session and get_checkout_status share their shape:      *)
(* _auto_reload_stripe_config, one call on stripe.checkout.Session, and the *)
(* three except clauses.  session is what the Session call does when it is  *)
(* reached.  A record of the result, stripe.api_key afterwards and the      *)
(* number of Session calls made.                                             *)
session_call(api_key, e, account, session) ==
    LET init == IF api_key THEN [raised |-> NoError, api_key |-> TRUE]
                ELSE initialize_stripe(e, account)
    IN  IF init.raised # NoError
        THEN [result |-> IF "exc" \in DOMAIN init.raised THEN init.raised
                         ELSE Unexpected(init.raised),
              api_key |-> init.api_key, calls |-> 0]
        ELSE [result |-> IF session = NoError THEN Ok("session")
                         ELSE IF IsInstance(session, "StripeError")
                         THEN CheckoutError(classify_stripe_error(session), session)
                         ELSE Unexpected(session),
              api_key |-> init.api_key, calls |-> 1]

EnvStripe == [x \in {"STRIPE_SECRET_KEY"} |-> "sk_test"]
EnvEmptyStripe == [x \in {"STRIPE_SECRET_KEY"} |-> ""]

InitPay ==
    /\ now = 0
    /\ env \in {EnvStripe, EnvEmptyStripe, EmptyDict}
    /\ AuthIdle /\ JwtIdle /\ AdminIdle /\ DbIdle /\ FanIdle /\ ExIdle /\ PayIdle
    /\ LamIdle /\ SesIdle /\ LateIdle

(* Without an API key the library raises AuthenticationError before it      *)
(* sends anything.                                                           *)
PayCall(method) ==
    /\ p_n < MaxPayCalls
    /\ \E account, session \in StripeOutcomes :
         \E r \in {session_call(stripe_api_key, env, account, session)} :
           /\ ~r.api_key => session = [class |-> "AuthenticationError", http_status |-> 0]
           /\ stripe_api_key' = r.api_key
           /\ p_result' = r.result
           /\ p_session_calls' = r.calls
    /\ p_op' = method
    /\ p_n' = p_n + 1
    /\ UNCHANGED payFrame

CreateCheckoutSession == PayCall("create_checkout_session")
GetCheckoutStatus == PayCall("get_checkout_status")

NextPay == CreateCheckoutSession \/ GetCheckoutStatus

SpecPay == InitPay /\ [][NextPay]_vars

(* The call ended in a CheckoutError made from a classified Stripe error *)
ClassifiedError ==
    /\ p_result.exc = "CheckoutError"
    /\ p_result.original.class \in StripeErrorClasses
RetryableClass(error) ==
    \/ error.class \in {"APIConnectionError", "RateLimitError"}
    \/ error.class = "APIError" /\ error.http_status \in 500..599
FixableClass(error) ==
    error.class \in {"AuthenticationError", "InvalidRequestError", "IdempotencyError"}

(* C14 as stated: retryable exactly for network, rate-limit and 5xx API     *)
(* errors, fixable exactly for authentication, invalid-request and          *)
(* idempotency errors, never both, every other Stripe error 'api_error' and *)
(* neither; at most one Stripe session call per service call.                *)
C14_ClassificationAsStated ==
    /\ p_session_calls <= 1
    /\ ClassifiedError =>
         /\ p_result.is_retryable <=> RetryableClass(p_result.original)
         /\ p_result.fixable <=> FixableClass(p_result.original)
         /\ ~(p_result.is_retryable /\ p_result.fixable)
         /\ (~RetryableClass(p_result.original) /\ ~FixableClass(p_result.original))
              => p_result.error_type = "api_error"

(* C14, amended: as stated, except that among the other Stripe errors a     *)
(* card error is classified 'card_error' (neither retryable nor fixable)    *)
(* and only the rest 'api_error'.                                            *)
C14_Classification ==
    /\ p_session_calls <= 1
    /\ ClassifiedError =>
         /\ p_result.is_retryable <=> RetryableClass(p_result.original)
         /\ p_result.fixable <=> FixableClass(p_result.original)
         /\ ~(p_result.is_retryable /\ p_result.fixable)
         /\ (~RetryableClass(p_result.original) /\ ~FixableClass(p_result.original))
              => p_result.error_type =
                   (IF p_result.original.class = "CardError" THEN "card_error"
                    ELSE "api_error")

(* A session call failed with a 5xx API error and was classified retryable, *)
(* after exactly one session call.                                           *)
C14_Witness ==
    /\ p_op = "create_checkout_session" /\ p_session_calls = 1
    /\ ClassifiedError
    /\ p_result.original = [class |-> "APIError", http_status |-> 500]
    /\ p_result.is_retryable /\ ~p_result.fixable

-----------------------------------------------------------------------------
(* SpecLambda: lambda_handler.py.  A path is a sequence of pieces of text,  *)
(* none a prefix of another, so that the string tests of the code are tests *)
(* on pieces: "/", names, extensions, and "%2F" (a percent-encoded "/").    *)

MaxTail == 1

StaticExtensions ==
    {".js", ".css", ".png", ".jpg", ".jpeg", ".gif", ".ico", ".svg", ".woff", ".woff2",
     ".ttf", ".eot"}

(* urllib.parse.unquote, str.startswith, str.endswith(tuple), str.rstrip("/") *)
Unquote(path) == [i \in 1..Len(path) |-> IF path[i] = "%2F" THEN "/" ELSE path[i]]
StartsWith(path, prefix) ==
    Len(path) >= Len(prefix) /\ SubSeq(path, 1, Len(prefix)) = prefix
EndsWithAny(path, suffixes) == Len(path) > 0 /\ path[Len(path)] \in suffixes
RECURSIVE RStripSlash(_)
RStripSlash(path) ==
    IF Len(path) > 0 /\ path[Len(path)] = "/"
    THEN RStripSlash(SubSeq(path, 1, Len(path) - 1))
    ELSE path

Routed(route, statusCode, path) == [route |-> route, statusCode |-> statusCode, path |-> path]

(* lambda_handler, after initialize_dynamic_routes.  An event is its format *)
(* ("2.0": API Gateway v2, "v1": it has httpMethod, "": neither), the path  *)
(* it carries and whether its headers are an object or null.                 *)
lambda_handler(event, seo) ==
    LET raw == IF event.format = "" THEN <<"/">> ELSE event.path
        decoded == Unquote(raw)
        path == IF StartsWith(decoded, <<"/">>) THEN decoded ELSE <<"/">> \o decoded
    IN  IF event.format # "" /\ ~event.headers
        THEN Routed("error", 500, path)
        ELSE IF path = <<"/", "api", "/", "config">> THEN Routed("config", 0, path)
        ELSE IF StartsWith(path, <<"/", "api", "/", "v1", "/">>)
        THEN Routed("backend", 0, path)
        ELSE IF path = <<"/", "health">> THEN Routed("health", 200, path)
        ELSE IF StartsWith(path, <<"/", "database">>) THEN Routed("blocked", 404, path)
        ELSE IF EndsWithAny(path, StaticExtensions) THEN Routed("static", 0, path)
        ELSE IF path = <<"/", "sitemap.xml">> THEN Routed("sitemap", 0, path)
        ELSE IF path = <<"/", "robots.txt">> THEN Routed("robots", 0, path)
        ELSE IF RStripSlash(path) \in seo THEN Routed("seo", 0, path)
        ELSE Routed("frontend", 0, path)

(* The events of the model: a head that meets or narrowly misses a route,   *)
(* followed by up to MaxTail further pieces.                                 *)
RECURSIVE Tails(_)
Tails(n) ==
    IF n = 0 THEN {<<>>}
    ELSE Tails(n - 1) \cup
         {Append(t, c) : t \in {u \in Tails(n - 1) : Len(u) = n - 1},
                         c \in {"/", "ment", ".js"}}
Heads ==
    { <<>>, <<"/">>, <<"/", "api", "/", "config">>, <<"/", "api", "/", "v1">>,
      <<"/", "api", "/", "v1", "/">>, <<"api", "/", "v1", "/">>,
      <<"/", "api", "%2F", "v1", "/">>, <<"/", "health">>, <<"/", "database">>,
      <<"/", "sitemap.xml">>, <<"/", "robots.txt">>, <<"/", "blog">>,
      <<"/", "blog", "/", "post">>, <<"/", "x", "/", "api", "/", "v1", "/">> }
Events ==
    { [format |-> "", path |-> <<>>, headers |-> TRUE] }
    \cup { [format |-> f, path |-> h \o t, headers |-> hd] :
             f \in {"2.0", "v1"}, h \in Heads, t \in Tails(MaxTail), hd \in BOOLEAN }

(* What initialize_dynamic_routes can find under frontend/dist: directories *)
(* with an index.html, of which it registers those under /blog               *)
DistPages == {<<"/", "blog">>, <<"/", "blog", "/", "post">>, <<"/", "ment">>}

InitLambda ==
    /\ now = 0 /\ env = EmptyDict
    /\ AuthIdle /\ JwtIdle /\ AdminIdle /\ DbIdle /\ RestIdle

(* One invocation: initialize_dynamic_routes on the first, then routing *)
LambdaHandler ==
    /\ \E found \in (IF dynamic_routes_initialized THEN {{}} ELSE SUBSET DistPages) :
         seo_paths' = IF dynamic_routes_initialized THEN seo_paths
                      ELSE {pg \in found : \/ pg = <<"/", "blog">>
                                            \/ StartsWith(pg, <<"/", "blog", "/">>)}
    /\ dynamic_routes_initialized' = TRUE
    /\ \E event \in Events :
         /\ l_event' = event
         /\ l_result' = lambda_handler(event, seo_paths')
    /\ UNCHANGED lamFrame

NextLambda == LambdaHandler

SpecLambda == InitLambda /\ [][NextLambda]_vars

(* The route the stated order gives to a decoded path *)
StatedRoute(path, seo) ==
    CASE path = <<"/", "api", "/", "config">> -> "config"
      [] StartsWith(path, <<"/", "api", "/", "v1", "/">>) -> "backend"
      [] path = <<"/", "health">> -> "health"
      [] OTHER ->
           IF StartsWith(path, <<"/", "database">>) THEN "blocked"
           ELSE IF EndsWithAny(path, StaticExtensions) THEN "static"
           ELSE IF path = <<"/", "sitemap.xml">> THEN "sitemap"
           ELSE IF path = <<"/", "robots.txt">> THEN "robots"
           ELSE IF RStripSlash(path) \in seo THEN "seo"
           ELSE "frontend"

RoutedAsStated ==
    /\ l_result.route = StatedRoute(l_result.path, seo_paths)
    /\ l_result.route = "health" => l_result.statusCode = 200
    /\ l_result.route = "backend" => StartsWith(l_result.path, <<"/", "api", "/", "v1", "/">>)
    /\ StartsWith(l_result.path, <<"/", "database">>)
         => l_result.route = "blocked" /\ l_result.statusCode = 404

(* C15: every event is routed by the first match in the stated order; only  *)
(* paths under /api/v1/ reach the backend; every path starting with         *)
(* /database is answered 404, static extension or not.                       *)
C15_RoutedInStatedOrder == dynamic_routes_initialized => RoutedAsStated

(* The order holds for every event whose headers are an object *)
C15_RoutedWhenHeadersPresent ==
    (dynamic_routes_initialized /\ (l_event.format = "" \/ l_event.headers))
        => RoutedAsStated

-----------------------------------------------------------------------------
(* Deleting a setting (SpecAdmin).  The requests of the model name the key  *)
(* DEBUG; the backend file also holds PORT, which no request names.  The    *)
(* delete handler has run when the request read an env file.                 *)

DeleteHandled(env_type) ==
    /\ a_endpoint' = "DELETE /api/v1/admin/settings/" \o env_type \o "/{key}"
    /\ a_reads' = a_reads + 1

DeletedAsStated(env_type, missing_status) ==
    DeleteHandled(env_type) =>
        IF "DEBUG" \in DOMAIN read_env_file(FileOf(env_type))
        THEN /\ a_status' = 200
             /\ read_env_file(FileOf(env_type)') = DictDel(read_env_file(FileOf(env_type)), "DEBUG")
        ELSE /\ a_status' = missing_status
             /\ FileOf(env_type)' = FileOf(env_type)

(* C16: deleting a key the env file does not hold is answered 404 and       *)
(* leaves the file unchanged; deleting a key it holds removes exactly that  *)
(* key and keeps every other key with its value.                             *)
C16_DeleteSetting ==
    [][\A env_type \in {"backend", "frontend"} : DeletedAsStated(env_type, 404)]_vars

(* What the handlers do: the same, with 500 in the place of 404 *)
C16_DeleteSettingAnswers500 ==
    [][\A env_type \in {"backend", "frontend"} : DeletedAsStated(env_type, 500)]_vars

-----------------------------------------------------------------------------
(* SpecSessions: callbacks that carry the same state and run concurrently,  *)
(* each on the AsyncSession get_db gave it.  oidc_states is the committed   *)
(* table.  The engine is created without an isolation level, so a           *)
(* PostgreSQL transaction reads committed rows (READ COMMITTED) and locks   *)
(* the rows it deletes until it ends; an SQLite transaction takes the       *)
(* database's write lock with its first DELETE and holds it until it ends.  *)

NumSessions == 3

Sessions == 1..NumSessions
TheState == generate_state(1)

(* What transaction p has locked, and whether it may now lock `wanted` *)
LockedBy(p) == {l[2] : l \in {m \in s_locks : m[1] = p}}
MayLock(p, wanted) ==
    IF db_backend = "sqlite"
    THEN \A l \in s_locks : l[1] = p
    ELSE \A l \in s_locks : l[1] = p \/ l[2] \notin wanted

(* The rows transaction p sees: the committed ones it has not deleted *)
Visible(p) == {r \in oidc_states : r.id \notin LockedBy(p)}

InitSessions ==
    /\ now = 12 /\ env = EnvConfigured
    /\ db_backend \in {"postgresql", "sqlite"}
    /\ oidc_states \in
         { {OIDCState(1, generate_state(1), generate_nonce(1), generate_code_verifier(1),
                      5 + StateTTL, 5)} \cup old :
             old \in SUBSET {OIDCState(2, generate_state(2), generate_nonce(2),
                                       generate_code_verifier(2), 0 + StateTTL, 0)} }
    /\ s_pc = [p \in Sessions |-> "sweep"]
    /\ s_found = [p \in Sessions |-> None]
    /\ s_data = [p \in Sessions |-> None]
    /\ s_locks = {}
    /\ users = {} /\ gen = 2 /\ nreq = 0
    /\ req = NoRequest /\ resp = NoResponse /\ consumed = <<>> /\ token_posts = {}
    /\ JwtIdle /\ AdminIdle /\ DbIdle /\ FanIdle /\ ExIdle /\ PayIdle /\ LamIdle
    /\ LateIdle

(* DELETE ... WHERE expires_at < now: the transaction begins, and waits for *)
(* the locks it needs                                                        *)
SessSweep(p) ==
    /\ s_pc[p] = "sweep"
    /\ \E expired \in {{r.id : r \in {x \in Visible(p) : x.expires_at < now}}} :
         /\ MayLock(p, expired)
         /\ s_locks' = s_locks \cup {<<p, id>> : id \in expired}
                              \cup (IF db_backend = "sqlite" THEN {<<p, 0>>} ELSE {})
    /\ s_pc' = [s_pc EXCEPT ![p] = "select"]
    /\ UNCHANGED <<oidc_states, db_backend, s_found, s_data, sesFrame>>

(* SELECT ... WHERE state = :state and scalar_one_or_none().  Without a row *)
(* the method returns None, the callback redirects with an error, and       *)
(* get_db closes the session, which rolls the transaction back.              *)
SessSelect(p) ==
    /\ s_pc[p] = "select"
    /\ \E rows \in {{r \in Visible(p) : r.state = TheState}} :
         IF rows = {}
         THEN /\ s_pc' = [s_pc EXCEPT ![p] = "rejected"]
              /\ s_locks' = {l \in s_locks : l[1] # p}
              /\ UNCHANGED s_found
         ELSE /\ s_pc' = [s_pc EXCEPT ![p] = "delete"]
              /\ s_found' = [s_found EXCEPT ![p] = CHOOSE r \in rows : TRUE]
              /\ UNCHANGED s_locks
    /\ UNCHANGED <<oidc_states, db_backend, s_data, sesFrame>>

(* state_data is built and db.delete(oidc_state) marks the row; no          *)
(* statement is sent before the flush                                        *)
SessDelete(p) ==
    /\ s_pc[p] = "delete"
    /\ s_data' = [s_data EXCEPT ![p] = [nonce |-> s_found[p].nonce,
                                        code_verifier |-> s_found[p].code_verifier]]
    /\ s_pc' = [s_pc EXCEPT ![p] = "commit"]
    /\ UNCHANGED <<oidc_states, db_backend, s_found, s_locks, sesFrame>>

(* db.commit(): the flush sends DELETE ... WHERE id = :id, then COMMIT.  A  *)
(* DELETE that matches no row is a warning of the ORM (the mapping has no   *)
(* version counter), not an error; the method returns state_data and the    *)
(* callback goes on to the token exchange.                                   *)
SessCommit(p) ==
    /\ s_pc[p] = "commit"
    /\ MayLock(p, {s_found[p].id})
    /\ oidc_states' = {r \in oidc_states : r.id \notin LockedBy(p) \cup {s_found[p].id}}
    /\ s_locks' = {l \in s_locks : l[1] # p}
    /\ s_pc' = [s_pc EXCEPT ![p] = "exchange"]
    /\ UNCHANGED <<db_backend, s_found, s_data, sesFrame>>

NextSessions ==
    \E p \in Sessions : SessSweep(p) \/ SessSelect(p) \/ SessDelete(p) \/ SessCommit(p)

SpecSessions == InitSessions /\ [][NextSessions]_vars

(* C17: of the concurrent callbacks that carry the same valid state, at     *)
(* most one obtains the state data and proceeds to the token exchange.      *)
C17_AtMostOneObtainsState ==
    Cardinality({p \in Sessions : s_pc[p] = "exchange"}) <= 1

(* It holds where the transactions are serialised by the database lock *)
C17_AtMostOneOnSqlite ==
    db_backend = "sqlite" => Cardinality({p \in Sessions : s_pc[p] = "exchange"}) <= 1

-----------------------------------------------------------------------------
(* Further properties of the OIDC flow (Spec) *)

(* C18: the state row is deleted, and the deletion committed, before the    *)
(* token exchange: whenever a callback obtains state data, also when a      *)
(* later step fails, no row with that state is left; a later callback with  *)
(* the same state is answered with the 'Invalid or expired state parameter' *)
(* error redirect and sends nothing to the token endpoint.                  *)
C18_FailedCallbackConsumesState ==
    [][ Handled("callback") =>
          /\ consumed' # consumed =>
                /\ \A r \in oidc_states' : r.state # req'.state
                /\ token_posts' # token_posts
          /\ (WellFormed(req') /\ Truthy(req'.state) /\ req'.state \in Range(consumed)) =>
                /\ IsErrorRedirect(resp', MsgInvalidState)
                /\ token_posts' = token_posts
                /\ oidc_states' = oidc_states /\ users' = users ]_vars

(* C18 witness: a callback failed after its state was consumed (no user was *)
(* ever written although the JWT secret is configured), and the retry with  *)
(* the same state was turned away                                           *)
C18_Witness ==
    /\ env = EnvConfigured /\ users = {}
    /\ Len(consumed) = 1 /\ token_posts # {}
    /\ req.op = "callback" /\ WellFormed(req) /\ req.state = consumed[1]
    /\ ~req.passed
    /\ IsErrorRedirect(resp, MsgInvalidState)

TokenIssuedIn(r) == "token" \in DOMAIN r.url.params
IsFailure(r) == r.url.path = "/auth/error"

(* C19: the callback writes the users table or issues an application token  *)
(* only if, in that request, the state was found and unexpired, the token   *)
(* endpoint returned 200 with an id_token, validate_id_token succeeded and  *)
(* the ID token's nonce is the one stored with the state; on every failure  *)
(* path the users table is unchanged and no token is issued.                *)
C19_UserAndTokenOnlyAfterChecks ==
    [][ Handled("callback") =>
          /\ (users' # users \/ TokenIssuedIn(resp')) => req'.passed
          /\ IsFailure(resp') => (users' = users /\ ~TokenIssuedIn(resp')) ]_vars

(* What holds of C19: a write or a token needs the checks to have passed, a *)
(* failure issues no token, and a failure before the checks have passed     *)
(* leaves the users table alone.                                            *)
C19_NothingBeforeChecksPass ==
    [][ Handled("callback") =>
          /\ (users' # users \/ TokenIssuedIn(resp')) => req'.passed
          /\ IsFailure(resp') => ~TokenIssuedIn(resp')
          /\ (IsFailure(resp') /\ ~req'.passed) => users' = users
          /\ IsFailure(resp') \/ TokenIssuedIn(resp') ]_vars

(* The login request that generated state s: its number, 0 if there is none *)
LoginOf(s) ==
    IF \E k \in 1..gen : s = generate_state(k)
    THEN CHOOSE k \in 1..gen : s = generate_state(k)
    ELSE 0

(* C20: with several logins pending, a callback for state s sends to the    *)
(* token endpoint the code_verifier, and compares with the ID token the     *)
(* nonce, that the login request which generated s persisted: the POST      *)
(* carries that login's verifier, the callback succeeds only with that      *)
(* login's nonce and answers 'Invalid nonce' only for another one.          *)
C20_VerifierAndNonceOfOwnLogin ==
    [][ (Handled("callback") /\ consumed' # consumed) =>
          \E k \in 1..gen :
            /\ k = LoginOf(req'.state)
            /\ \E r \in oidc_states :
                  /\ r.state = req'.state
                  /\ r.nonce = generate_nonce(k)
                  /\ r.code_verifier = generate_code_verifier(k)
            /\ token_posts' = token_posts \cup
                  {[code |-> req'.code, state |-> req'.state,
                    code_verifier |-> generate_code_verifier(k)]}
            /\ TokenIssuedIn(resp') => req'.id_nonce = generate_nonce(k)
            /\ IsErrorRedirect(resp', <<"Invalid nonce">>) =>
                  req'.id_nonce # generate_nonce(k) ]_vars

(* C20 witness: two logins are pending; the callback for the second state   *)
(* brought an ID token with the first login's nonce and was answered        *)
(* 'Invalid nonce', the POST having carried the second login's verifier;    *)
(* the first login is still pending                                         *)
C20_Witness ==
    /\ gen = 2
    /\ req.op = "callback" /\ req.state = generate_state(2)
    /\ req.id_nonce = generate_nonce(1)
    /\ IsErrorRedirect(resp, <<"Invalid nonce">>)
    /\ \E p \in token_posts :
          p.state = generate_state(2) /\ p.code_verifier = generate_code_verifier(2)
    /\ \E r \in oidc_states : r.state = generate_state(1)

-----------------------------------------------------------------------------
(* SpecUsers: the operations that write the users table -- the OIDC         *)
(* callback, the profile update and the admin bootstrap -- under            *)
(* environments with and without the admin settings.                        *)

(* UserService.update_user_profile *)
update_user_profile(tbl, user_id, name) ==
    LET found == {u \in tbl : u.id = user_id}
    IN  IF found = {} THEN [user |-> None, table |-> tbl]
        ELSE LET old == CHOOSE u \in found : TRUE
             IN  IF name # None
                 THEN LET user == [old EXCEPT !.name = name]
                      IN  [user |-> user, table |-> (tbl \ {old}) \cup {user}]
                 ELSE [user |-> old, table |-> tbl]

(* PUT /api/v1/users/profile for the user the token names *)
update_profile(tbl, user_id, name) ==
    LET r == update_user_profile(tbl, user_id, name)
    IN  [status |-> IF r.user = None THEN 404 ELSE 200, table |-> r.table]

EnvNoAdminId ==
    [x \in DOMAIN EnvConfigured \ {"ADMIN_USER_ID"} |-> EnvConfigured[x]]
EnvNoAdminEmail ==
    [x \in DOMAIN EnvConfigured \ {"ADMIN_USER_EMAIL"} |-> EnvConfigured[x]]
EnvEmptyAdminEmail == [EnvConfigured EXCEPT !["ADMIN_USER_EMAIL"] = ""]
AdminEnvs == {EnvConfigured, EnvNoAdminId, EnvNoAdminEmail, EnvEmptyAdminEmail}

InitUsers ==
    /\ now = 0
    /\ env \in AdminEnvs
    /\ AuthIdle /\ JwtIdle /\ AdminIdle /\ DbIdle /\ RestIdle

UpdateProfile ==
    /\ nreq < MaxRequests
    /\ \E user_id \in {"u1", "u2", "u3"}, name \in {None, PyStr("Zed")} :
         \E r \in {update_profile(users, user_id, name)} :
           /\ users' = r.table
           /\ resp' = [status |-> r.status, url |-> NoUrl]
    /\ nreq' = nreq + 1
    /\ req' = [NoRequest EXCEPT !.op = "update_profile"]
    /\ UNCHANGED <<now, env, oidc_states, gen, consumed, token_posts>>
    /\ UNCHANGED <<jwtVars, adminVars, dbVars, restVars>>

NextUsers == AdminBootstrap \/ Login \/ CallbackGood \/ UpdateProfile

SpecUsers == InitUsers /\ [][NextUsers]_vars

-----------------------------------------------------------------------------
(* Properties of the users table (SpecUsers) *)

AdminConfigured(e) ==
    /\ SettingsGetattr(e, "admin_user_id").exc = ""
    /\ Truthy(SettingsGetattr(e, "admin_user_id").val)
    /\ SettingsGetattr(e, "admin_user_email").exc = ""
    /\ Truthy(SettingsGetattr(e, "admin_user_email").val)

(* C24: with ADMIN_USER_ID and ADMIN_USER_EMAIL both configured, after      *)
(* initialize_admin_user there is exactly one row with id = admin_user_id   *)
(* and its role is 'admin': created when absent, promoted and given the     *)
(* configured email when it had another role, left untouched when already   *)
(* admin; running it again changes nothing.  With either setting missing    *)
(* it leaves the users table as it is.                                      *)
C24_AdminBootstrap ==
    LET r == initialize_admin_user(users, env, now)
    IN  IF AdminConfigured(env)
        THEN LET id == SettingsGetattr(env, "admin_user_id").val[2]
                 email == SettingsGetattr(env, "admin_user_email").val[2]
                 old == {u \in users : u.id = id}
             IN  /\ Cardinality({u \in r : u.id = id}) = 1
                 /\ \A u \in r : u.id = id => u.role = "admin"
                 /\ {u \in r : u.id # id} = {u \in users : u.id # id}
                 /\ old = {} => User(id, email, None, "admin", now, None) \in r
                 /\ \A o \in old :
                      IF o.role = "admin" THEN r = users
                      ELSE [o EXCEPT !.role = "admin", !.email = email] \in r
                 /\ initialize_admin_user(r, env, now) = r
        ELSE r = users

(* C24 witness: the bootstrap promoted a user who had logged in before, and *)
(* another user is in the table                                             *)
C24_Witness ==
    /\ AdminConfigured(env)
    /\ \E u \in users :
          /\ u.id = "u1" /\ u.role = "admin" /\ u.last_login # None
          /\ u.email = "root@example.org" /\ u.name = PyStr("Ann")
    /\ \E u \in users : u.id = "u2" /\ u.role = "user"

(* C25: no login, callback or profile update changes the role of an         *)
(* existing user, and a user they create has role 'user'; a row has role    *)
(* 'admin' only for the configured admin user id, where                     *)
(* initialize_admin_user set it, and a token issued by the callback carries *)
(* role 'admin' only for that id.                                           *)
C25_RoleOnlyFromBootstrap ==
    [][ /\ nreq' # nreq =>
              /\ \A u \in users : \E v \in users' : v.id = u.id /\ v.role = u.role
              /\ \A v \in users' : (\A u \in users : u.id # v.id) => v.role = "user"
        /\ \A v \in users' :
              v.role = "admin" =>
                  /\ AdminConfigured(env)
                  /\ PyStr(v.id) = SettingsGetattr(env, "admin_user_id").val
        /\ (Handled("callback") /\ TokenIssuedIn(resp')) =>
              LET claims == resp'.url.params.token.payload
              IN  claims["role"] = PyStr("admin") =>
                      /\ AdminConfigured(env)
                      /\ claims["sub"] = SettingsGetattr(env, "admin_user_id").val
                      /\ \E u \in users : u.id = claims["sub"][2] /\ u.role = "admin" ]_vars

(* C25 witness: the administrator, who was promoted after a first login,    *)
(* has updated the profile name, and the row kept the role                  *)
C25_Witness ==
    /\ req.op = "update_profile" /\ resp.status = 200
    /\ \E u \in users :
          /\ u.id = "u1" /\ u.role = "admin" /\ u.last_login # None
          /\ u.name = PyStr("Zed") /\ u.email = "root@example.org"

-----------------------------------------------------------------------------
(* SpecBoot: lambda_handler.py, the one-time initialisation of the services *)
(* in a Lambda container.  A container handles one request at a time, and   *)
(* the runtime calls the handler outside any running event loop.            *)

MaxBootRequests == 4

InitFunctions == <<"initialize_database", "initialize_mock_data", "initialize_admin_user">>

(* How one run of the three functions goes: all end well (at = 0), or the   *)
(* at-th raises exc                                                         *)
AttemptOutcomes ==
    {[at |-> 0, exc |-> ""]} \cup
    {[at |-> i, exc |-> x] : i \in 1..3, x \in {"RuntimeError", "Exception"}}

Called(fn, out) == [fn |-> fn, out |-> out]

(* Mutant: the flag is set whether or not the functions ended well *)
initialize_services_once_flag_always(flag, how) ==
    IF flag THEN [flag |-> flag, calls |-> <<>>, exc |-> ""]
    ELSE IF how.at = 0
    THEN [flag |-> TRUE, calls |-> [i \in 1..3 |-> Called(InitFunctions[i], "ok")], exc |-> ""]
    ELSE [flag |-> TRUE,
          calls |-> [i \in 1..how.at |->
                        Called(InitFunctions[i], IF i = how.at THEN how.exc ELSE "ok")],
          exc |-> how.exc]

(* initialize_services_once: the flag after it, the calls it made and the   *)
(* exception it raised ("" if none)                                         *)
initialize_services_once(flag, how) ==
    IF flag THEN [flag |-> flag, calls |-> <<>>, exc |-> ""]
    ELSE IF how.at = 0
    THEN [flag |-> TRUE, calls |-> [i \in 1..3 |-> Called(InitFunctions[i], "ok")], exc |-> ""]
    ELSE [flag |-> flag,
          calls |-> [i \in 1..how.at |->
                        Called(InitFunctions[i], IF i = how.at THEN how.exc ELSE "ok")],
          exc |-> how.exc]

(* handle_backend_request_sync.  loop is the thread's current event loop;   *)
(* made says whether asyncio.get_event_loop() makes a loop when there is    *)
(* none (else it raises RuntimeError); first and second say how the run     *)
(* inside `try` and the run inside `except RuntimeError` go.                *)
handle_backend_request_sync(flag, loop, made, first, second) ==
    LET out(f, l, c, r) == [flag |-> f, loop |-> l, calls |-> c, result |-> r]
    IN
    IF flag THEN out(flag, loop, <<>>, "mangum")
    ELSE
    LET got == IF loop = "none" THEN (IF made THEN "open" ELSE "none") ELSE loop
        one == IF got = "open" THEN initialize_services_once(flag, first)
               ELSE [flag |-> flag, calls |-> <<>>, exc |-> "RuntimeError"]
    IN
    IF one.exc = "" THEN out(one.flag, got, one.calls, "mangum")
    ELSE IF one.exc # "RuntimeError" THEN out(one.flag, got, one.calls, one.exc)
    ELSE
    LET two == initialize_services_once(one.flag, second)
    IN  out(two.flag, "closed", one.calls \o two.calls,
            IF two.exc = "" THEN "mangum" ELSE two.exc)

InitBoot ==
    /\ services_initialized = FALSE
    /\ ev_loop \in {"none", "open"}
    /\ b_calls = <<>> /\ b_result = "" /\ b_n = 0
    /\ now = 0 /\ env = EmptyDict
    /\ AuthIdle /\ JwtIdle /\ AdminIdle /\ DbIdle
    /\ FanIdle /\ ExIdle /\ PayIdle /\ LamIdle /\ SesIdle /\ fresh_call = 0
    /\ StreamIdle /\ MockIdle

(* One /api/v1/ request *)
BackendRequest ==
    /\ b_n < MaxBootRequests
    /\ \E made \in BOOLEAN, first \in AttemptOutcomes, second \in AttemptOutcomes :
         \E r \in {handle_backend_request_sync(services_initialized, ev_loop, made,
                                               first, second)} :
           /\ services_initialized' = r.flag
           /\ ev_loop' = r.loop
           /\ b_calls' = r.calls
           /\ b_result' = r.result
    /\ b_n' = b_n + 1
    /\ UNCHANGED bootFrame

NextBoot == BackendRequest

SpecBoot == InitBoot /\ [][NextBoot]_vars

-----------------------------------------------------------------------------
(* Properties of the one-time initialisation (SpecBoot) *)

EndsWithFullRun(c) ==
    /\ Len(c) >= 3
    /\ \A i \in 1..3 : c[Len(c) - 3 + i] = Called(InitFunctions[i], "ok")
InOrder(c) ==
    \A k \in 1..Len(c) :
        \/ c[k].fn = InitFunctions[1]
        \/ /\ k > 1 /\ c[k - 1].out = "ok"
           /\ \E i \in 1..2 : c[k - 1].fn = InitFunctions[i] /\ c[k].fn = InitFunctions[i + 1]

-----------------------------------------------------------------------------
(* SpecStream: routers/aihub.py, event_generator of a streaming gentxt      *)
(* request over AIHubService.gentxt_stream.  The upstream stream delivers   *)
(* chunks and then completes or raises.                                     *)

MaxChunks == 3

(* json.dumps({"content": content}), and the bare string "[DONE]" *)
ContentEvent(content) == <<"json", content>>
DoneEvent == <<"raw", "[DONE]">>

(* The delta.content of a chunk; gentxt_stream passes on the non-empty ones *)
ChunkContents == {"", "a", "[DONE]"}

(* What the upstream raises: str(error) is prefix followed, if body is a    *)
(* dictionary, by its text                                                  *)
UpstreamError(prefix, body) == [prefix |-> prefix, body |-> body]
UpstreamErrors ==
    { UpstreamError("timeout", None),
      UpstreamError("", [error |-> [message |-> "quota"]]),
      UpstreamError("Error code: 400 - ", [message |-> "bad"]),
      UpstreamError("Error code: 500 - ", [detail |-> "x"]) }

(* str(error) *)
ErrorStr(error) ==
    IF error.body = None THEN error.prefix
    ELSE error.prefix \o "{" \o
         (IF "error" \in DOMAIN error.body
          THEN "'error': {'message': '" \o error.body.error.message \o "'}"
          ELSE IF "message" \in DOMAIN error.body
          THEN "'message': '" \o error.body.message \o "'"
          ELSE "'detail': '" \o error.body.detail \o "'") \o "}"

(* _try_extract_message_from_dict *)
TryExtractMessageFromDict(data) ==
    IF "error" \in DOMAIN data /\ "message" \in DOMAIN data.error THEN data.error.message
    ELSE IF "message" \in DOMAIN data THEN data.message
    ELSE ""

(* extract_error_message: the message field of the dictionary str(error)    *)
(* is or holds, else str(error)                                             *)
extract_error_message(error) ==
    IF error.body # None /\ TryExtractMessageFromDict(error.body) # ""
    THEN TryExtractMessageFromDict(error.body)
    ELSE ErrorStr(error)

InitStream ==
    /\ g_pc = "try" /\ g_events = <<>> /\ g_chunks = 0 /\ g_error = None
    /\ now = 0 /\ env = EmptyDict
    /\ AuthIdle /\ JwtIdle /\ AdminIdle /\ DbIdle
    /\ FanIdle /\ ExIdle /\ PayIdle /\ LamIdle /\ SesIdle /\ fresh_call = 0
    /\ BootIdle /\ MockIdle

(* async for content in service.gentxt_stream(request): yield ... *)
StreamChunk ==
    /\ g_pc = "try" /\ g_chunks < MaxChunks
    /\ \E content \in ChunkContents :
         g_events' = IF content # "" THEN Append(g_events, ContentEvent(content))
                     ELSE g_events
    /\ g_chunks' = g_chunks + 1
    /\ UNCHANGED <<g_pc, g_error>>
    /\ UNCHANGED streamFrame

(* the upstream stream is exhausted: the try block ends *)
StreamEnds ==
    /\ g_pc = "try"
    /\ g_pc' = "finally"
    /\ UNCHANGED <<g_events, g_chunks, g_error>>
    /\ UNCHANGED streamFrame

(* gentxt_stream raises (it logs and re-raises what the client raised) *)
StreamRaises ==
    /\ g_pc = "try"
    /\ \E error \in UpstreamErrors : g_error' = error
    /\ g_pc' = "except"
    /\ UNCHANGED <<g_events, g_chunks>>
    /\ UNCHANGED streamFrame

(* except Exception as e: yield json.dumps({"content": f"[ERROR] ..."}) *)
YieldError ==
    /\ g_pc = "except"
    /\ g_events' = Append(g_events, ContentEvent("[ERROR] " \o extract_error_message(g_error)))
    /\ g_pc' = "finally"
    /\ UNCHANGED <<g_chunks, g_error>>
    /\ UNCHANGED streamFrame

(* Mutant: the finally clause yields nothing *)
FinallyEvents_none(events) == events

(* finally: yield "[DONE]" *)
FinallyEvents(events) == Append(events, DoneEvent)

YieldDone ==
    /\ g_pc = "finally"
    /\ g_events' = FinallyEvents(g_events)
    /\ g_pc' = "closed"
    /\ UNCHANGED <<g_chunks, g_error>>
    /\ UNCHANGED streamFrame

NextStream == StreamChunk \/ StreamEnds \/ StreamRaises \/ YieldError \/ YieldDone

SpecStream == InitStream /\ [][NextStream]_vars

(* The consumer keeps pulling and the upstream keeps going *)
SpecStreamFair == SpecStream /\ WF_vars(NextStream)

-----------------------------------------------------------------------------
(* Properties of the event stream (SpecStream) *)

IsErrorEvent(e) == e[1] = "json" /\ e = ContentEvent("[ERROR] " \o extract_error_message(g_error))
DoneCount == Cardinality({i \in 1..Len(g_events) : g_events[i] = DoneEvent})

(* C27: the event stream of a streaming gentxt request ends with exactly    *)
(* one '[DONE]' event, its last event, whether the upstream completes or    *)
(* raises midway; after an upstream error one '[ERROR] ...' content event   *)
(* comes after the chunks already sent and right before '[DONE]'; nothing   *)
(* follows '[DONE]'; and the stream does end.                               *)
C27_StreamEndsWithDone ==
    /\ [](g_pc = "closed" =>
            /\ DoneCount = 1 /\ g_events[Len(g_events)] = DoneEvent
            /\ g_error # None =>
                  /\ Len(g_events) >= 2 /\ IsErrorEvent(g_events[Len(g_events) - 1])
                  /\ Len(g_events) - 2 <= g_chunks
            /\ g_error = None => Len(g_events) - 1 <= g_chunks)
    /\ [](g_pc # "closed" => DoneCount = 0)
    /\ [][g_pc = "closed" => g_events' = g_events]_vars
    /\ <>(g_pc = "closed")

(* C27 witness: the upstream raised after two chunks, one of them with the  *)
(* text [DONE], and the stream is closed                                    *)
C27_Witness ==
    /\ g_pc = "closed" /\ g_error = UpstreamError("Error code: 400 - ", [message |-> "bad"])
    /\ g_events = <<ContentEvent("a"), ContentEvent("[DONE]"), ContentEvent("[ERROR] bad"),
                    DoneEvent>>

-----------------------------------------------------------------------------
(* SpecMock: services/mock_data.py, initialize_mock_data over the files of  *)
(* mock_data/, one load_file task per file, each in its own transaction.    *)
(* The file <stem>.json belongs to the table <stem>.                        *)

MaxMockRuns == 2

MockFiles == {"a", "b"}
(* records: a list of two usable records; empty: JSON without a usable      *)
(* record; invalid: not JSON; unreadable: read_text raises                  *)
FileKinds == {"records", "empty", "invalid", "unreadable"}
RecordsIn(kind) == IF kind = "records" THEN 2 ELSE 0

NoLoad == [pc |-> "idle", tx |-> 0, failed |-> FALSE]
MockRunning == \E f \in MockFiles : m_load[f].pc # "idle"

InitMock ==
    /\ m_exists \in SUBSET MockFiles
    /\ m_rows \in [MockFiles -> {0, 1}]
    /\ \A t \in MockFiles : t \notin m_exists => m_rows[t] = 0
    /\ m_kind \in [MockFiles -> FileKinds]
    /\ m_start = m_rows
    /\ m_load = [f \in MockFiles |-> NoLoad]
    /\ m_runs = 0 /\ m_raised = FALSE
    /\ now = 0 /\ env = EmptyDict
    /\ AuthIdle /\ JwtIdle /\ AdminIdle /\ DbIdle
    /\ FanIdle /\ ExIdle /\ PayIdle /\ LamIdle /\ SesIdle /\ fresh_call = 0
    /\ BootIdle /\ StreamIdle

(* initialize_mock_data up to asyncio.gather: without an engine it returns, *)
(* else one load_file task per file waits for the semaphore                 *)
StartMockData ==
    /\ ~MockRunning /\ m_runs < MaxMockRuns
    /\ m_runs' = m_runs + 1
    /\ m_start' = m_rows
    /\ \E engine_ready \in BOOLEAN :
         m_load' = IF engine_ready
                   THEN [f \in MockFiles |-> [pc |-> "waiting", tx |-> 0, failed |-> FALSE]]
                   ELSE m_load
    /\ UNCHANGED <<m_exists, m_rows, m_kind, m_raised>>
    /\ UNCHANGED mockFrame

(* Mutant: load_file catches only SQLAlchemy errors *)
load_file_except_sqlalchemy(exc) == exc \in {"SQLAlchemyError", "NoSuchTableError"}

(* load_file: except Exception *)
load_file_except(exc) == exc \in {"SQLAlchemyError", "NoSuchTableError", "JSONDecodeError",
                                  "OSError", "TypeError"}

(* The task of file f ends: exc left _load_table_from_file ("" for a return) *)
EndLoad(f, exc, failed) ==
    /\ m_load' = [m_load EXCEPT ![f] = [pc |-> "done", tx |-> 0, failed |-> failed]]
    /\ m_raised' = (m_raised \/ (exc # "" /\ ~load_file_except(exc)))

(* async with semaphore, async with db_manager.engine.begin() *)
AcquireLoad(f) ==
    /\ m_load[f].pc = "waiting"
    /\ Cardinality({g \in MockFiles : m_load[g].pc \in {"reflect", "count", "insert", "commit"}})
          < MAX_CONCURRENT_LOADS
    /\ m_load' = [m_load EXCEPT ![f].pc = "reflect"]
    /\ UNCHANGED <<m_exists, m_rows, m_kind, m_start, m_runs, m_raised>>
    /\ UNCHANGED mockFrame

(* table = await _reflect_table(conn, table_name): NoSuchTableError and     *)
(* SQLAlchemyError are logged and the function returns                      *)
ReflectTable(f) ==
    /\ m_load[f].pc = "reflect"
    /\ \E exc \in (IF f \in m_exists THEN {"", "SQLAlchemyError"} ELSE {"NoSuchTableError"}) :
         m_load' = [m_load EXCEPT ![f].pc = IF exc = "" THEN "count" ELSE "commit",
                                  ![f].failed = (exc # "")]
    /\ UNCHANGED <<m_exists, m_rows, m_kind, m_start, m_runs, m_raised>>
    /\ UNCHANGED mockFrame

(* row_count = await conn.scalar(select count); a table with rows is        *)
(* skipped; then the file is read, parsed and prepared                      *)
CountAndRead(f) ==
    /\ m_load[f].pc = "count"
    /\ \E exc \in {"", "SQLAlchemyError"} :
         IF exc # "" THEN EndLoad(f, exc, TRUE)
         ELSE IF m_rows[f] > 0
         THEN m_load' = [m_load EXCEPT ![f].pc = "commit"] /\ UNCHANGED m_raised
         ELSE IF m_kind[f] = "unreadable" THEN EndLoad(f, "OSError", TRUE)
         ELSE IF m_kind[f] = "invalid"
         THEN m_load' = [m_load EXCEPT ![f].pc = "commit", ![f].failed = TRUE]
              /\ UNCHANGED m_raised
         ELSE IF RecordsIn(m_kind[f]) = 0
         THEN m_load' = [m_load EXCEPT ![f].pc = "commit"] /\ UNCHANGED m_raised
         ELSE m_load' = [m_load EXCEPT ![f].pc = "insert"] /\ UNCHANGED m_raised
    /\ UNCHANGED <<m_exists, m_rows, m_kind, m_start, m_runs>>
    /\ UNCHANGED mockFrame

(* await conn.execute(table.insert(), records): SQLAlchemyError is logged   *)
(* (some of the rows may stay in the transaction), anything else leaves the *)
(* transaction block, which rolls back                                      *)
InsertRecords(f) ==
    /\ m_load[f].pc = "insert"
    /\ \E exc \in {"", "SQLAlchemyError", "TypeError"} :
         IF exc = ""
         THEN m_load' = [m_load EXCEPT ![f].pc = "commit", ![f].tx = RecordsIn(m_kind[f])]
              /\ UNCHANGED m_raised
         ELSE IF exc = "SQLAlchemyError"
         THEN /\ \E kept \in 0..(RecordsIn(m_kind[f]) - 1) :
                   m_load' = [m_load EXCEPT ![f].pc = "commit", ![f].tx = kept,
                                            ![f].failed = TRUE]
              /\ UNCHANGED m_raised
         ELSE EndLoad(f, exc, TRUE)
    /\ UNCHANGED <<m_exists, m_rows, m_kind, m_start, m_runs>>
    /\ UNCHANGED mockFrame

(* The transaction block is left by return or by its end: commit, which     *)
(* may itself fail                                                          *)
CommitLoad(f) ==
    /\ m_load[f].pc = "commit"
    /\ \E exc \in {"", "SQLAlchemyError"} :
         /\ m_rows' = IF exc = "" THEN [m_rows EXCEPT ![f] = @ + m_load[f].tx] ELSE m_rows
         /\ EndLoad(f, exc, m_load[f].failed \/ exc # "")
    /\ UNCHANGED <<m_exists, m_kind, m_start, m_runs>>
    /\ UNCHANGED mockFrame

(* asyncio.gather returns: initialize_mock_data is over *)
FinishMockData ==
    /\ \A f \in MockFiles : m_load[f].pc = "done"
    /\ m_load' = [f \in MockFiles |-> [m_load[f] EXCEPT !.pc = "idle"]]
    /\ UNCHANGED <<m_exists, m_rows, m_kind, m_start, m_runs, m_raised>>
    /\ UNCHANGED mockFrame

(* Between two runs the application writes a row to a table *)
ApplicationInsert ==
    /\ ~MockRunning /\ m_runs < MaxMockRuns
    /\ \E t \in m_exists :
         /\ m_rows[t] = 0
         /\ m_rows' = [m_rows EXCEPT ![t] = 1]
    /\ UNCHANGED <<m_exists, m_kind, m_start, m_load, m_runs, m_raised>>
    /\ UNCHANGED mockFrame

NextMock ==
    \/ StartMockData
    \/ \E f \in MockFiles :
         AcquireLoad(f) \/ ReflectTable(f) \/ CountAndRead(f) \/ InsertRecords(f) \/ CommitLoad(f)
    \/ FinishMockData
    \/ ApplicationInsert

SpecMock == InitMock /\ [][NextMock]_vars

-----------------------------------------------------------------------------
(* Properties of mock-data seeding (SpecMock) *)

AllLoadsDone == \A f \in MockFiles : m_load[f].pc = "done"

(* C28: initialize_mock_data writes only tables that exist and are empty    *)
(* when loaded, so a run over populated tables changes nothing; a failure   *)
(* while loading one file neither keeps another file from being loaded nor  *)
(* makes initialize_mock_data raise.                                        *)
C28_MockDataOnlyIntoEmptyTables ==
    /\ [][MockRunning =>
            \A t \in MockFiles :
               m_rows'[t] # m_rows[t] => t \in m_exists /\ m_rows[t] = 0 /\ m_start[t] = 0]_vars
    /\ [](AllLoadsDone =>
            \A f \in MockFiles :
               (f \in m_exists /\ m_start[f] = 0 /\ m_kind[f] = "records" /\ ~m_load[f].failed)
                  => m_rows[f] = RecordsIn(m_kind[f]))
    /\ [](AllLoadsDone => \A t \in MockFiles : m_start[t] > 0 => m_rows[t] = m_start[t])
    /\ [](~m_raised)

(* C28 witness: in a second run the load of a.json failed on an unexpected  *)
(* exception, b.json filled its empty table, and the run is over            *)
C28_Witness ==
    /\ AllLoadsDone /\ m_runs = 2 /\ ~m_raised
    /\ m_kind["a"] = "unreadable" /\ m_load["a"].failed /\ m_rows["a"] = 0 /\ "a" \in m_exists
    /\ m_start["b"] = 0 /\ m_rows["b"] = 2 /\ ~m_load["b"].failed

-----------------------------------------------------------------------------
(* Authentication before authorization (SpecAdmin) *)

(* The request handled in this step, at a guarded endpoint *)
GuardedRequest == nreq' # nreq /\ a_endpoint' \in AdminEndpoints

(* Its credentials are missing, not of the Bearer scheme, or hold a token   *)
(* that is signed with another key, has expired or carries no sub           *)
NotAuthenticated(credentials, t) ==
    \/ credentials = None
    \/ credentials.scheme # "bearer"
    \/ credentials.credentials.key # "k1"
    \/ JwtValidateClaims(credentials.credentials.payload, None, None, t).exc
          = "ExpiredSignatureError"
    \/ ~Truthy(DictGet(credentials.credentials.payload, "sub", None))

(* Its token decoded, has a sub, and its role is not 'admin' *)
AuthenticatedNonAdmin(credentials, e, t) ==
    /\ credentials # None /\ credentials.scheme = "bearer"
    /\ decode_access_token(credentials.credentials, e, t).exc = ""
    /\ Truthy(DictGet(credentials.credentials.payload, "sub", None))
    /\ DictGet(credentials.credentials.payload, "role", PyStr("user")) # PyStr("admin")

(* C29, as stated: a request to an admin-only endpoint with a missing,      *)
(* non-Bearer, invalid, expired or sub-less token is answered 401 and never *)
(* 403; 403 is returned only for a token that decoded successfully, has a   *)
(* sub, and whose role is not 'admin'.                                      *)
C29_AuthenticationBeforeAuthorization ==
    [][GuardedRequest =>
         /\ NotAuthenticated(a_token', now) => a_status' = 401
         /\ a_status' = 403 => AuthenticatedNonAdmin(a_token', env, now)]_vars

(* What holds: such a request is never answered 403, and is answered 401    *)
(* when the credentials are missing or not Bearer or the environment holds  *)
(* JWT_SECRET_KEY; 403 is returned only for a token that decoded            *)
(* successfully, has a sub, and whose role is not 'admin'.                  *)
C29_NeverForbiddenBeforeAuthenticated ==
    [][GuardedRequest =>
         /\ NotAuthenticated(a_token', now) =>
               /\ a_status' # 403
               /\ (a_token' = None \/ a_token'.scheme # "bearer"
                     \/ "JWT_SECRET_KEY" \in DOMAIN env) => a_status' = 401
         /\ a_status' = 403 => AuthenticatedNonAdmin(a_token', env, now)]_vars

(* C29 witness: an expired admin token was answered 401 at a DELETE *)
C29_Witness ==
    /\ a_status = 401 /\ now = 1 /\ nreq > 0
    /\ a_endpoint = "DELETE /api/v1/admin/settings/backend/{key}"
    /\ a_token = Bearer(AdminToken([sub |-> PyStr("u1"), role |-> PyStr("admin")], "k1", 0))

====
